---- MODULE Spec2Model ----
(***************************************************************************)
(* stacksherpa recommendation core: provider scoring (src/scoring.ts),     *)
(* profile merging (src/profile.ts), the decision ledger                   *)
(* (src/decisions.ts) and the pattern cache (src/patterns.ts).             *)
(*                                                                         *)
(* Strings are sequences of one-character strings, so that toLowerCase,    *)
(* startsWith and includes are computed and not assumed.  An optional      *)
(* value (a TypeScript `T | undefined`) is the empty set when undefined    *)
(* and the singleton {v} when it is v.  Scores and confidences are exact   *)
(* rationals over the common denominator ConfUnit.                         *)
(***************************************************************************)
EXTENDS Integers, Sequences, FiniteSets, TLC

(***************************************************************************)
(* Bounds of the model.                                                    *)
(***************************************************************************)
\* Changes the environment makes to the inputs of scoreProvider.
MaxEdits == 2
\* Decisions in a ledger whose patterns are computed.
MaxDecisions == 3
\* Age of the oldest decision, in periods of 180 days.
MaxAgePeriods == 1
\* Decisions recorded by interleaved handlers.
MaxRecords == 2
\* Steps of the clock while handlers run.
MaxTicks == 2

(***************************************************************************)
(* Optional values and strings.                                            *)
(***************************************************************************)
undefined == {}

Some(v) == {v}

IsDefined(o) == o # {}

Val(o) == CHOOSE v \in o : TRUE

\* JavaScript's `o ?? d`.
OrElse(o, d) == IF o = {} THEN d ELSE Val(o)

UpperChars ==
  <<"A","B","C","D","E","F","G","H","I","J","K","L","M",
    "N","O","P","Q","R","S","T","U","V","W","X","Y","Z">>

LowerChars ==
  <<"a","b","c","d","e","f","g","h","i","j","k","l","m",
    "n","o","p","q","r","s","t","u","v","w","x","y","z">>

LowerChar(c) ==
  IF \E i \in 1..26 : UpperChars[i] = c
  THEN LowerChars[CHOOSE i \in 1..26 : UpperChars[i] = c]
  ELSE c

\* String.prototype.toLowerCase
toLowerCase(s) == [i \in 1..Len(s) |-> LowerChar(s[i])]

\* String.prototype.startsWith
startsWith(s, prefix) ==
  /\ Len(prefix) <= Len(s)
  /\ \A i \in 1..Len(prefix) : s[i] = prefix[i]

\* String.prototype.includes (substring search)
includes(s, part) ==
  \E k \in 0..(Len(s) - Len(part)) :
    \A i \in 1..Len(part) : s[k + i] = part[i]

\* Array.prototype.includes
arrayIncludes(arr, x) == \E i \in 1..Len(arr) : arr[i] = x

RECURSIVE SumSeq(_)
SumSeq(s) == IF s = <<>> THEN 0 ELSE Head(s) + SumSeq(Tail(s))

RECURSIVE Pow2(_)
Pow2(n) == IF n = 0 THEN 1 ELSE 2 * Pow2(n - 1)

RECURSIVE Gcd(_, _)
Gcd(a, b) == IF b = 0 THEN a ELSE Gcd(b, a % b)

RECURSIVE LcmUpTo(_)
LcmUpTo(n) ==
  IF n <= 3 THEN 3 ELSE LET l == LcmUpTo(n - 1) IN (l * n) \div Gcd(l, n)

(***************************************************************************)
(* Units.  A decay weight 0.5^k is WeightUnit / 2^k; a raw pattern score   *)
(* is counted in halves of a weight (RawUnit), since a negative decision   *)
(* contributes -0.5; a confidence c is the integer c * ConfUnit and a      *)
(* score x is the integer x * ConfUnit.                                    *)
(***************************************************************************)
MaxHalvings == 2 * MaxAgePeriods

WeightUnit == Pow2(MaxHalvings)

RawUnit == 2 * WeightUnit

ConfUnit == 5 * RawUnit * LcmUpTo(MaxDecisions)

Points(n) == n * ConfUnit

(***************************************************************************)
(* The strings of the model.                                               *)
(***************************************************************************)
SOC2 == <<"S","O","C","2">>
soc2 == <<"s","o","c","2">>
HIPAA == <<"H","I","P","A","A">>
GDPR == <<"G","D","P","R">>

Mux == <<"M","u","x">>
mux == <<"m","u","x">>
Neon == <<"N","e","o","n">>

email == <<"e","m","a","i","l">>
sms == <<"s","m","s">>

supabase == <<"s","u","p","a","b","a","s","e">>

prefersPrefix == <<"p","r","e","f","e","r","s",":">>
dislikesPrefix == <<"d","i","s","l","i","k","e","s",":">>
positivePrefix == <<"p","o","s","i","t","i","v","e",":">>
negativePrefix == <<"n","e","g","a","t","i","v","e",":">>
contextPrefix == <<"c","o","n","t","e","x","t",":">>
colon == <<":">>

\* `${prefix}${api}:${category}`, the prefix ending in a colon.
Signal(prefix, api, category) == prefix \o api \o colon \o category

(***************************************************************************)
(* scoreProvider                                                           *)
(***************************************************************************)
\* Mutant of hasAll: the certifications are compared as written.
hasAll_CaseSensitive(requiredCompliance, providerCompliance) ==
  \A i \in 1..Len(requiredCompliance) :
    \E j \in 1..Len(providerCompliance) :
      providerCompliance[j] = requiredCompliance[i]

\* The provider holds every required certification, compared in lower case.
hasAll(requiredCompliance, providerCompliance) ==
  \A i \in 1..Len(requiredCompliance) :
    \E j \in 1..Len(providerCompliance) :
      toLowerCase(providerCompliance[j]) = toLowerCase(requiredCompliance[i])

COMPLIANCE_BONUS == 20
SCALE_BONUS == 15
PRIORITY_STEP == 5
FREE_TIER_BONUS == 10
ECOSYSTEM_BONUS == 20
POSITIVE_EXPERIENCE == 8
NEGATIVE_EXPERIENCE == 12
PREFERS_FACTOR == 10
DISLIKES_FACTOR == 15
STALE_DAYS == 90
STALE_PENALTY == 5
CRITICAL_PENALTY == 10

\* Days between `today` and the provider's lastVerified date, rounded down.
daysSinceVerified(lastVerified, today) == today - lastVerified

\* Mutant of priorityBonus: the weight of position i is length - i - 1.
priorityBonus_OffByOne(provider, priorities) ==
  SumSeq([i \in 1..Len(priorities) |->
            IF arrayIncludes(OrElse(provider.strengths, <<>>), priorities[i])
            THEN (Len(priorities) - i) * PRIORITY_STEP
            ELSE 0])

\* Mutant of priorityBonus: every held priority weighs the same.
priorityBonus_Flat(provider, priorities) ==
  SumSeq([i \in 1..Len(priorities) |->
            IF arrayIncludes(OrElse(provider.strengths, <<>>), priorities[i])
            THEN Len(priorities) * PRIORITY_STEP
            ELSE 0])

priorityBonus(provider, priorities) ==
  SumSeq([i \in 1..Len(priorities) |->
            IF arrayIncludes(OrElse(provider.strengths, <<>>), priorities[i])
            THEN (Len(priorities) - (i - 1)) * PRIORITY_STEP
            ELSE 0])

\* Mutant of hasFreeTier: only the explicit flag counts.
hasFreeTier_FlagOnly(provider) == provider.hasFreeTier = Some(TRUE)

\* provider.pricing?.freeTier !== undefined || provider.hasFreeTier
hasFreeTier(provider) ==
  IsDefined(provider.pricingFreeTier) \/ provider.hasFreeTier = Some(TRUE)

\* Mutant of experienceAdjustment: a negative experience weighs as a positive one.
experienceAdjustment_Symmetric(provider, experiences) ==
  SumSeq([i \in 1..Len(experiences) |->
            IF toLowerCase(experiences[i].api) = toLowerCase(provider.name)
            THEN (IF experiences[i].outcome = "positive" THEN POSITIVE_EXPERIENCE ELSE 0)
                 - (IF experiences[i].outcome = "negative" THEN POSITIVE_EXPERIENCE ELSE 0)
            ELSE 0])

experienceAdjustment(provider, experiences) ==
  SumSeq([i \in 1..Len(experiences) |->
            IF toLowerCase(experiences[i].api) = toLowerCase(provider.name)
            THEN (IF experiences[i].outcome = "positive" THEN POSITIVE_EXPERIENCE ELSE 0)
                 - (IF experiences[i].outcome = "negative" THEN NEGATIVE_EXPERIENCE ELSE 0)
            ELSE 0])

\* In units of 1/ConfUnit: confidence x 10, confidence x 15.
patternAdjustment(provider, patterns) ==
  SumSeq([i \in 1..Len(patterns) |->
            IF includes(toLowerCase(patterns[i].signal), toLowerCase(provider.name))
            THEN (IF startsWith(patterns[i].signal, prefersPrefix)
                  THEN patterns[i].confidence * PREFERS_FACTOR ELSE 0)
                 - (IF startsWith(patterns[i].signal, dislikesPrefix)
                    THEN patterns[i].confidence * DISLIKES_FACTOR ELSE 0)
            ELSE 0])

criticalIssues_PerSeverity(provider) ==
  SelectSeq(OrElse(provider.knownIssues, <<>>), LAMBDA i : ~i.resolved)

criticalIssues(provider) ==
  SelectSeq(OrElse(provider.knownIssues, <<>>),
            LAMBDA i : i.severity = "critical" /\ ~i.resolved)

\* The score times ConfUnit; the disqualification sentinel -1 is -ConfUnit.
scoreProvider(provider, effective, experiences, patterns, ecosystemCtx, today) ==
  LET requiredCompliance == OrElse(effective.constraints.compliance, <<>>)
      providerCompliance == OrElse(provider.compliance, <<>>)
      projectScale == IF IsDefined(effective.project)
                      THEN Val(effective.project).scale ELSE undefined
      scaleFit == IF IsDefined(provider.bestFor) THEN Val(provider.bestFor)
                  ELSE OrElse(provider.scale, <<>>)
      priorities == OrElse(effective.preferences.prioritize, <<>>)
      s1 == IF Len(requiredCompliance) > 0 THEN COMPLIANCE_BONUS ELSE 0
      s2 == IF IsDefined(projectScale) /\ arrayIncludes(scaleFit, Val(projectScale))
            THEN SCALE_BONUS ELSE 0
      s3 == priorityBonus(provider, priorities)
      s4 == IF projectScale \in {Some("hobby"), Some("startup")} /\ hasFreeTier(provider)
            THEN FREE_TIER_BONUS ELSE 0
      s5 == IF /\ IsDefined(ecosystemCtx)
               /\ IsDefined(provider.ecosystem)
               /\ Val(provider.ecosystem) \in Val(ecosystemCtx)
            THEN ECOSYSTEM_BONUS ELSE 0
      s6 == experienceAdjustment(provider, experiences)
      s7 == patternAdjustment(provider, patterns)
      s8 == IF /\ IsDefined(provider.lastVerified)
               /\ daysSinceVerified(Val(provider.lastVerified), today) > STALE_DAYS
            THEN STALE_PENALTY ELSE 0
      s9 == IF Len(criticalIssues(provider)) > 0 THEN CRITICAL_PENALTY ELSE 0
  IN IF Len(requiredCompliance) > 0 /\ ~hasAll(requiredCompliance, providerCompliance)
     THEN -ConfUnit
     ELSE Points(s1 + s2 + s3 + s4 + s5 + s6 - s8 - s9) + s7

(***************************************************************************)
(* Profile merging (src/profile.ts).  The documents conform to the         *)
(* Constraints and Preferences interfaces: a union field holds an array of *)
(* strings and a budget ceiling holds a number, so the Array.isArray and   *)
(* typeof tests of applyMergePolicy succeed whenever both sides are        *)
(* defined.                                                                *)
(***************************************************************************)
\* [...new Set(arr)]: the first occurrence of every value, in order.
RECURSIVE Dedup(_)
Dedup(arr) ==
  IF arr = <<>> THEN <<>>
  ELSE LET d == Dedup(SubSeq(arr, 1, Len(arr) - 1))
           x == arr[Len(arr)]
       IN IF arrayIncludes(d, x) THEN d ELSE Append(d, x)

\* Math.min and Math.max
Min(a, b) == IF a <= b THEN a ELSE b

Max(a, b) == IF a >= b THEN a ELSE b

applyMergePolicy_LocalFirst(globalValue, localValue, policy) ==
  IF localValue = undefined THEN globalValue
  ELSE IF globalValue = undefined THEN localValue
  ELSE CASE policy = "override" -> localValue
         [] policy = "union" -> Some(Dedup(Val(localValue) \o Val(globalValue)))
         [] policy = "min" -> Some(Min(Val(globalValue), Val(localValue)))
         [] policy = "max" -> Some(Max(Val(globalValue), Val(localValue)))
         [] OTHER -> localValue

applyMergePolicy(globalValue, localValue, policy) ==
  IF localValue = undefined THEN globalValue
  ELSE IF globalValue = undefined THEN localValue
  ELSE CASE policy = "override" -> localValue
         [] policy = "union" -> Some(Dedup(Val(globalValue) \o Val(localValue)))
         [] policy = "min" -> Some(Min(Val(globalValue), Val(localValue)))
         [] policy = "max" -> Some(Max(Val(globalValue), Val(localValue)))
         [] OTHER -> localValue

\* `obj?.[key]`
Get(obj, key) == IF obj = undefined THEN undefined ELSE Val(obj)[key]

\* `fields` of mergeConstraints and of mergePreferences.
CONSTRAINT_FIELDS ==
  << [key |-> "compliance", policy |-> "union"],
     [key |-> "dataResidency", policy |-> "union"],
     [key |-> "mustHaveFeatures", policy |-> "union"],
     [key |-> "dealbreakers", policy |-> "union"],
     [key |-> "requiredSdkLanguages", policy |-> "union"],
     [key |-> "selfHosted", policy |-> "override"],
     [key |-> "vendorLockInTolerance", policy |-> "override"] >>

PREFERENCE_FIELDS ==
  << [key |-> "prioritize", policy |-> "override"],
     [key |-> "riskTolerance", policy |-> "override"],
     [key |-> "avoidProviders", policy |-> "union"],
     [key |-> "preferredProviders", policy |-> "override"] >>

\* The loop over `fields`: the merged values, then the provenance records
\* of the fields that are defined on at least one side.
mergedFields(fields, global, local) ==
  [k \in {fields[i].key : i \in 1..Len(fields)} |->
     LET f == fields[CHOOSE i \in 1..Len(fields) : fields[i].key = k]
     IN applyMergePolicy(Get(global, k), Get(local, k), f.policy)]

fieldDetails_LocalOnly(section, fields, global, local) ==
  LET all == [i \in 1..Len(fields) |->
                [field |-> <<section, fields[i].key>>,
                 policy |-> fields[i].policy,
                 globalValue |-> Get(global, fields[i].key),
                 localValue |-> Get(local, fields[i].key),
                 effectiveValue |-> applyMergePolicy(Get(global, fields[i].key),
                                                     Get(local, fields[i].key),
                                                     fields[i].policy)]]
  IN SelectSeq(all, LAMBDA d : d.localValue # undefined)

fieldDetails(section, fields, global, local) ==
  LET all == [i \in 1..Len(fields) |->
                [field |-> <<section, fields[i].key>>,
                 policy |-> fields[i].policy,
                 globalValue |-> Get(global, fields[i].key),
                 localValue |-> Get(local, fields[i].key),
                 effectiveValue |-> applyMergePolicy(Get(global, fields[i].key),
                                                     Get(local, fields[i].key),
                                                     fields[i].policy)]]
  IN SelectSeq(all, LAMBDA d : d.globalValue # undefined \/ d.localValue # undefined)

\* One nested ceiling of budgetCeiling, merged with policy min.
ceilingDetail(name, global, local) ==
  LET g == Get(Get(global, "budgetCeiling"), name)
      l == Get(Get(local, "budgetCeiling"), name)
      e == applyMergePolicy(g, l, "min")
  IN IF e = undefined THEN <<>>
     ELSE << [field |-> <<"constraints", "budgetCeiling", name>>, policy |-> "min",
              globalValue |-> g, localValue |-> l, effectiveValue |-> e] >>

mergeConstraints(global, local) ==
  LET hasCeiling == \/ Get(global, "budgetCeiling") # undefined
                    \/ Get(local, "budgetCeiling") # undefined
      ceiling ==
        IF hasCeiling
        THEN Some([monthly |->
                     applyMergePolicy(Get(Get(global, "budgetCeiling"), "monthly"),
                                      Get(Get(local, "budgetCeiling"), "monthly"),
                                      "min"),
                   perRequest |->
                     applyMergePolicy(Get(Get(global, "budgetCeiling"), "perRequest"),
                                      Get(Get(local, "budgetCeiling"), "perRequest"),
                                      "min")])
        ELSE undefined
  IN [merged |-> mergedFields(CONSTRAINT_FIELDS, global, local)
                   @@ ("budgetCeiling" :> ceiling),
      details |-> fieldDetails("constraints", CONSTRAINT_FIELDS, global, local)
                    \o (IF hasCeiling
                        THEN ceilingDetail("monthly", global, local)
                               \o ceilingDetail("perRequest", global, local)
                        ELSE <<>>)]

mergePreferences(global, local) ==
  [merged |-> mergedFields(PREFERENCE_FIELDS, global, local),
   details |-> fieldDetails("preferences", PREFERENCE_FIELDS, global, local)]

\* loadEffectiveProfile, given the documents loadGlobalDefaults and
\* loadLocalProfile returned (undefined models null).
loadEffectiveProfile(globalDefaultsDoc, localProfileDoc) ==
  LET c == mergeConstraints(Get(globalDefaultsDoc, "constraints"),
                            Get(localProfileDoc, "constraints"))
      p == mergePreferences(Get(globalDefaultsDoc, "preferences"),
                            Get(localProfileDoc, "preferences"))
  IN [effective |-> [project |-> Get(localProfileDoc, "project"),
                     constraints |-> c.merged,
                     preferences |-> p.merged],
      globalDefaults |-> globalDefaultsDoc,
      localProfile |-> localProfileDoc,
      mergeDetails |-> c.details \o p.details]

(***************************************************************************)
(* Pattern inference (src/patterns.ts) over the decision ledger            *)
(* (src/decisions.ts).  Dates are counted in periods of PERIOD_DAYS days,  *)
(* so that with a half-life of 90 or 180 days every decay weight           *)
(* 0.5^(ageDays / halfLifeDays) is an exact multiple of 1 / WeightUnit; a  *)
(* decision dated in the future has a weight above 1.                      *)
(***************************************************************************)
PERIOD_DAYS == 180

DEFAULT_DECAY_HALF_LIFE_DAYS == 180

\* 0.2, in units of 1 / ConfUnit.
CONFIDENCE_THRESHOLD == ConfUnit \div 5

highVolumeWord == <<"h","i","g","h"," ","v","o","l","u","m","e">>
scaleWord == <<"s","c","a","l","e">>
startupWord == <<"s","t","a","r","t","u","p">>
mvpWord == <<"m","v","p">>
enterpriseWord == <<"e","n","t","e","r","p","r","i","s","e">>
complianceWord == <<"c","o","m","p","l","i","a","n","c","e">>
migrationWord == <<"m","i","g","r","a","t","i","o","n">>
switchingWord == <<"s","w","i","t","c","h","i","n","g">>

highVolumeSignal == contextPrefix \o <<"h","i","g","h","-","v","o","l","u","m","e">>
earlyStageSignal == contextPrefix \o <<"e","a","r","l","y","-","s","t","a","g","e">>
enterpriseSignal == contextPrefix \o enterpriseWord
migrationSignal == contextPrefix \o migrationWord

detectSignals(decision) ==
  (IF decision.outcome = "positive"
   THEN << Signal(prefersPrefix, decision.api, decision.category),
           positivePrefix \o decision.category >>
   ELSE <<>>)
  \o (IF decision.outcome = "negative"
      THEN << Signal(dislikesPrefix, decision.api, decision.category),
              negativePrefix \o decision.category >>
      ELSE <<>>)
  \o (IF decision.context # undefined /\ Val(decision.context) # <<>>
      THEN LET lowerContext == toLowerCase(Val(decision.context))
           IN (IF includes(lowerContext, highVolumeWord) \/ includes(lowerContext, scaleWord)
               THEN <<highVolumeSignal>> ELSE <<>>)
              \o (IF includes(lowerContext, startupWord) \/ includes(lowerContext, mvpWord)
                  THEN <<earlyStageSignal>> ELSE <<>>)
              \o (IF includes(lowerContext, enterpriseWord)
                       \/ includes(lowerContext, complianceWord)
                  THEN <<enterpriseSignal>> ELSE <<>>)
              \o (IF includes(lowerContext, migrationWord)
                       \/ includes(lowerContext, switchingWord)
                  THEN <<migrationSignal>> ELSE <<>>)
      ELSE <<>>)

\* Math.pow(0.5, ageDays / halfLifeDays), in units of 1 / WeightUnit.
calculateDecayWeight(date, halfLifeDays, today) ==
  LET halvings == ((today - date) * PERIOD_DAYS) \div halfLifeDays
  IN IF halvings >= 0 THEN WeightUnit \div Pow2(halvings)
     ELSE WeightUnit * Pow2(-halvings)

\* The positions of `keys` in ascending order of key, equal keys in their
\* original order (Array.prototype.sort is stable).
SortedPositions(keys) ==
  LET n == Len(keys)
      rank == [i \in 1..n |->
                 1 + Cardinality({j \in 1..n : keys[j] < keys[i]
                                                \/ (keys[j] = keys[i] /\ j < i)})]
  IN [k \in 1..n |-> CHOOSE i \in 1..n : rank[i] = k]

SortAscending(s, keys) ==
  LET positions == SortedPositions(keys)
  IN [k \in 1..Len(s) |-> s[positions[k]]]

SortDescending(s, keys) == SortAscending(s, [i \in 1..Len(keys) |-> -keys[i]])

RECURSIVE Flatten(_)
Flatten(ss) == IF ss = <<>> THEN <<>> ELSE Head(ss) \o Flatten(Tail(ss))

\* A project of the registry with the content of its decisions file.
ProjectDecisions(name, decisions) == [name |-> name, decisions |-> decisions]

\* The project of the server, registered and sharing, as the only active
\* project.
ownProject(decisions) == <<ProjectDecisions("app", decisions)>>

\* { decision, projectName }, as one record.
withProject(decision, projectName) ==
  [id |-> decision.id, api |-> decision.api, category |-> decision.category,
   outcome |-> decision.outcome, context |-> decision.context,
   notes |-> decision.notes, notesPrivate |-> decision.notesPrivate,
   date |-> decision.date, projectName |-> projectName]

RECURSIVE collectDecisions(_)
collectDecisions(activeProjects) ==
  IF activeProjects = <<>> THEN <<>>
  ELSE LET project == Head(activeProjects)
       IN SelectSeq([i \in 1..Len(project.decisions) |->
                       withProject(project.decisions[i], project.name)],
                    LAMBDA d : TRUE)
          \o collectDecisions(Tail(activeProjects))

\* loadAllDecisions, given the active projects with their decisions: the
\* decisions of all of them, newest first.
loadAllDecisions(activeProjects) ==
  LET allDecisions == collectDecisions(activeProjects)
  IN SortDescending(allDecisions,
                    [i \in 1..Len(allDecisions) |-> allDecisions[i].date])

scoreContribution_Magnitude(decision) ==
  IF decision.outcome = "neutral" THEN 0 ELSE 2

\* 1, -0.5 or 0, in units of 1 / 2.
scoreContribution(decision) ==
  IF decision.outcome = "positive" THEN 2
  ELSE IF decision.outcome = "negative" THEN -1
  ELSE 0

NOTE_SUMMARY_LENGTH == 100

ellipsisLength == 3

ellipsis == <<".", ".", ".">>

\* truncateNotes(notes, maxLength = 100)
truncateNotes(notes) ==
  IF notes = undefined \/ Val(notes) = <<>> THEN undefined
  ELSE IF Len(Val(notes)) <= NOTE_SUMMARY_LENGTH THEN notes
  ELSE Some(SubSeq(Val(notes), 1, NOTE_SUMMARY_LENGTH - ellipsisLength) \o ellipsis)

\* decision.notesPrivate ? undefined : truncateNotes(decision.notes)
noteSummary(decision) ==
  IF decision.notesPrivate THEN undefined ELSE truncateNotes(decision.notes)

toExperienceSummary(decision) ==
  [id |-> decision.id, project |-> decision.projectName, api |-> decision.api,
   category |-> decision.category, outcome |-> decision.outcome,
   context |-> decision.context, noteSummary |-> noteSummary(decision),
   date |-> decision.date]

\* The accumulator of one signal: its evidence in the order of
\* allDecisions and its raw score in units of 1 / RawUnit.
accumulate(signal, allDecisions, halfLifeDays, today) ==
  LET evidence == SelectSeq(allDecisions,
                            LAMBDA d : arrayIncludes(detectSignals(d), signal))
  IN [signal |-> signal,
      evidence |-> evidence,
      rawScore |-> SumSeq([i \in 1..Len(evidence) |->
                             calculateDecayWeight(evidence[i].date, halfLifeDays, today)
                               * scoreContribution(evidence[i])])]

confidence_Unclamped(accumulator) ==
  accumulator.rawScore
    * ((ConfUnit \div RawUnit) \div Max(Len(accumulator.evidence), 3))

\* Math.min(1, Math.max(0, rawScore / Math.max(evidence.length, 3))), in
\* units of 1 / ConfUnit.
confidence(accumulator) ==
  Min(ConfUnit,
      Max(0, accumulator.rawScore
               * ((ConfUnit \div RawUnit) \div Max(Len(accumulator.evidence), 3))))

scoredPattern_LedgerOrder(accumulator) ==
  [signal |-> accumulator.signal,
   confidence |-> confidence(accumulator),
   evidenceIds |-> [i \in 1..Len(accumulator.evidence) |-> accumulator.evidence[i].id],
   firstObserved |-> accumulator.evidence[1].date,
   lastReinforced |-> accumulator.evidence[Len(accumulator.evidence)].date]

scoredPattern(accumulator) ==
  LET sortedEvidence ==
        SortAscending(accumulator.evidence,
                      [i \in 1..Len(accumulator.evidence) |-> accumulator.evidence[i].date])
  IN [signal |-> accumulator.signal,
      confidence |-> confidence(accumulator),
      evidenceIds |-> [i \in 1..Len(sortedEvidence) |-> sortedEvidence[i].id],
      firstObserved |-> sortedEvidence[1].date,
      lastReinforced |-> sortedEvidence[Len(sortedEvidence)].date]

RECURSIVE scoredPatterns(_)
scoredPatterns(accumulators) ==
  IF accumulators = <<>> THEN <<>>
  ELSE <<scoredPattern(Head(accumulators))>> \o scoredPatterns(Tail(accumulators))

\* computePatterns past the cache check, on the decisions loadAllDecisions
\* returned.
computePatterns(allDecisions, decayHalfLifeDays, today) ==
  LET signals == Dedup(Flatten([i \in 1..Len(allDecisions) |->
                                  detectSignals(allDecisions[i])]))
      accumulators == [i \in 1..Len(signals) |->
                         accumulate(signals[i], allDecisions, decayHalfLifeDays, today)]
      kept == SelectSeq(accumulators,
                        LAMBDA a : ~(confidence(a) < CONFIDENCE_THRESHOLD))
      scored == scoredPatterns(kept)
  IN [experiences |-> [i \in 1..Len(allDecisions) |->
                         toExperienceSummary(allDecisions[i])],
      patterns |-> SortDescending(scored, [i \in 1..Len(scored) |-> scored[i].confidence]),
      computedAt |-> today]

(***************************************************************************)
(* The inputs of scoreProvider: one catalog entry, the effective profile,  *)
(* the category's experiences and patterns, the ecosystem context.         *)
(***************************************************************************)
VARIABLES provider, effective, experiences, patterns, ecosystemCtx, score, edits

varsScore == <<provider, effective, experiences, patterns, ecosystemCtx, score, edits>>

\* The profile documents on disk (~/.stacksherpa/defaults.json and
\* <project>/.stacksherpa/profile.json; undefined when the file is missing),
\* and the value the last call of loadEffectiveProfile returned.
VARIABLES globalDefaults, localProfile, loaded, docEdits

varsMerge == <<globalDefaults, localProfile, loaded, docEdits>>

\* The decisions file of the project and the id of the next decision
\* (randomUUID never repeats); the date in periods of PERIOD_DAYS days and
\* the seconds elapsed within the period; the module variables cachedTaste
\* and cacheTimestamp of patterns.ts; and the value the last sequential call
\* of computePatterns returned, with whether it took it from the cache.
VARIABLES ledger, nextId, now, clock, cachedTaste, cacheTimestamp, taste, hit

varsTaste == <<ledger, nextId, now, clock, cachedTaste, cacheTimestamp, taste, hit>>

\* The handlers of the MCP server that run interleaved at their awaits:
\* calls[h] is the position of handler h with its local variables.  The
\* other variables record the history the claims speak about: the number of
\* writes of the decisions file, the record calls that have returned, per
\* handler what its computePatterns call started after and read, the last
\* store into the cache, whether the cache was invalidated since, and (where
\* the time since a write is asked for) the time of every write by version.
VARIABLES calls, version, returned, audit, stored, invalidated, writtenAt

varsCalls == <<calls, version, returned, audit, stored, invalidated, writtenAt>>

\* The update_profile tool: the project's profile.json as a JSON document
\* (undefined when the file is missing), the operations of the last call of
\* updateProjectProfile with the document it found, the value the call
\* returned, and the number of calls.
VARIABLES profileFile, operations, updated, batches

varsUpdate == <<profileFile, operations, updated, batches>>

\* The recommend tool: the category of the last request and its normalised
\* form, the rows of the providers table, the project's profile.json as
\* loadLocalProfile finds it, and the value the last call of recommend
\* returned.
VARIABLES request, normalized, catalog, localFile, recommendation

varsRecommend == <<request, normalized, catalog, localFile, recommendation>>

\* The state of the tool handlers.
\* The project registry, the decisions file of every project and the last
\* call on them with what it returned.
VARIABLES registry, decisionFiles, lastCall

varsSharing == <<registry, decisionFiles, lastCall>>

\* The directory of the configuration document: its entries, the files they
\* name, and the save and load calls in flight on them.
VARIABLES dir, inodes, writers, readers, overlapped

varsFiles == <<dir, inodes, writers, readers, overlapped>>

varsTools == <<varsUpdate, varsRecommend, varsSharing, varsFiles>>

vars == <<varsScore, varsMerge, varsTaste, varsCalls, varsTools>>

\* What an action on the scoring inputs, on the profile documents and on
\* the ledger and the pattern cache leaves alone.
othersScore == <<varsMerge, varsTaste, varsCalls, varsTools>>

othersMerge == <<varsScore, varsTaste, varsCalls, varsTools>>

othersTaste == <<varsScore, varsMerge, varsTools>>

\* No profile has been updated.
IdleUpdate ==
  /\ profileFile = undefined
  /\ operations = undefined
  /\ updated = undefined
  /\ batches = 0

\* No recommendation has been requested.
IdleRecommend ==
  /\ request = undefined
  /\ normalized = undefined
  /\ catalog = <<>>
  /\ localFile = undefined
  /\ recommendation = undefined

\* No tool has been called.
\* No project is registered and no decisions file is kept apart from the
\* ledger.
IdleSharing ==
  /\ registry = <<>>
  /\ decisionFiles = <<>>
  /\ lastCall = undefined

\* No configuration document is being saved or loaded.
IdleFiles ==
  /\ dir = <<>>
  /\ inodes = <<>>
  /\ writers = <<>>
  /\ readers = <<>>
  /\ overlapped = FALSE

IdleTools == IdleUpdate /\ IdleRecommend /\ IdleSharing /\ IdleFiles

\* What a call of updateProjectProfile leaves alone.
othersUpdate == <<varsScore, varsMerge, varsTaste, varsCalls, varsRecommend, varsSharing, varsFiles>>

Handlers == {"h1", "h2"}

idleCall ==
  [pc |-> "idle", decision |-> undefined, snapshot |-> <<>>,
   result |-> undefined, hit |-> FALSE]

idleAudit ==
  [see |-> {}, readVersion |-> 0, wrote |-> 0, origin |-> undefined, age |-> 0]

\* No handler is running.
IdleCalls ==
  /\ calls = [h \in Handlers |-> idleCall]
  /\ version = 0
  /\ returned = {}
  /\ audit = [h \in Handlers |-> idleAudit]
  /\ stored = undefined
  /\ invalidated = FALSE
  /\ writtenAt = <<>>

\* The day scoreProvider runs (Date.now(), in days).
Today == 1000

unresolvedCritical == [severity |-> "critical", resolved |-> FALSE]
resolvedCritical == [severity |-> "critical", resolved |-> TRUE]
unresolvedHigh == [severity |-> "high", resolved |-> FALSE]

EmptyConstraints ==
  [compliance |-> undefined, dataResidency |-> undefined,
   mustHaveFeatures |-> undefined, dealbreakers |-> undefined,
   requiredSdkLanguages |-> undefined, selfHosted |-> undefined,
   vendorLockInTolerance |-> undefined, budgetCeiling |-> undefined]

EmptyPreferences ==
  [prioritize |-> undefined, riskTolerance |-> undefined,
   avoidProviders |-> undefined, preferredProviders |-> undefined]

\* makeProvider() and makeProfile() of the scoring tests.
testProvider ==
  [name |-> Mux, compliance |-> Some(<<>>), bestFor |-> Some(<<"startup">>),
   scale |-> undefined, strengths |-> Some(<<"dx", "reliability">>),
   pricingFreeTier |-> undefined, hasFreeTier |-> Some(TRUE),
   ecosystem |-> undefined, lastVerified |-> Some(Today),
   knownIssues |-> undefined]

testProfile ==
  [project |-> Some([scale |-> Some("startup")]),
   constraints |-> EmptyConstraints,
   preferences |-> [EmptyPreferences EXCEPT !.prioritize = Some(<<"dx", "reliability">>)]]

\* The provider and the profile of the documented scoring scenario.
scenarioProvider ==
  [testProvider EXCEPT !.compliance = Some(<<SOC2, HIPAA>>),
                       !.strengths = Some(<<"dx">>)]

scenarioProfile ==
  [project |-> Some([scale |-> Some("startup")]),
   constraints |-> [EmptyConstraints EXCEPT !.compliance = Some(<<SOC2>>)],
   preferences |-> [EmptyPreferences EXCEPT !.prioritize = Some(<<"dx">>)]]

\* A provider that declares nothing but its name, and an empty profile.
bareProvider ==
  [name |-> Mux, compliance |-> undefined, bestFor |-> undefined,
   scale |-> undefined, strengths |-> undefined,
   pricingFreeTier |-> undefined, hasFreeTier |-> undefined,
   ecosystem |-> undefined, lastVerified |-> undefined,
   knownIssues |-> undefined]

emptyProfile ==
  [project |-> undefined, constraints |-> EmptyConstraints,
   preferences |-> EmptyPreferences]

Fixtures ==
  { <<testProvider, testProfile>>,
    <<scenarioProvider, scenarioProfile>>,
    <<[scenarioProvider EXCEPT !.hasFreeTier = Some(FALSE)], scenarioProfile>>,
    <<bareProvider, emptyProfile>> }

\* The values a catalog update may give to one field of a KnownProvider.
ProviderValues ==
  [name |-> {Mux, Neon},
   compliance |-> {undefined, Some(<<soc2>>), Some(<<SOC2, HIPAA>>), Some(<<GDPR>>)},
   bestFor |-> {undefined, Some(<<"startup">>), Some(<<"enterprise">>),
                Some(<<"hobby", "growth">>)},
   scale |-> {undefined, Some(<<"startup">>)},
   strengths |-> {undefined, Some(<<"dx">>), Some(<<"dx", "reliability">>),
                  Some(<<"reliability", "cost">>)},
   pricingFreeTier |-> {undefined, Some("100 emails/day")},
   hasFreeTier |-> {undefined, Some(TRUE), Some(FALSE)},
   ecosystem |-> {undefined, Some(supabase)},
   lastVerified |-> {undefined, Some(Today), Some(Today - STALE_DAYS),
                     Some(Today - STALE_DAYS - 1)},
   knownIssues |-> {undefined, Some(<<unresolvedCritical>>), Some(<<resolvedCritical>>),
                    Some(<<unresolvedHigh>>),
                    Some(<<unresolvedCritical, unresolvedCritical>>)}]

Scales == {"hobby", "startup", "growth", "enterprise"}

ProjectValues == {undefined, Some([scale |-> undefined])}
                   \cup {Some([scale |-> Some(s)]) : s \in Scales}

ComplianceValues == {undefined, Some(<<>>), Some(<<SOC2>>), Some(<<SOC2, HIPAA>>)}

PrioritizeValues ==
  {undefined, Some(<<"dx">>), Some(<<"dx", "reliability">>),
   Some(<<"reliability", "dx">>), Some(<<"cost", "reliability", "dx">>),
   Some(<<"dx", "cost", "reliability">>)}

ExperienceValues ==
  [api : {Mux, mux, Neon}, outcome : {"positive", "negative", "neutral"}]

PatternValues ==
  [signal : {Signal(prefersPrefix, Mux, email), Signal(prefersPrefix, Neon, email),
             Signal(dislikesPrefix, mux, email), positivePrefix \o email},
   confidence : {ConfUnit \div 5, 2 * (ConfUnit \div 5), ConfUnit}]

EcosystemValues == {undefined, Some({}), Some({supabase})}

\* No profile document exists and nothing has been loaded.
IdleMerge ==
  /\ globalDefaults = undefined
  /\ localProfile = undefined
  /\ loaded = undefined
  /\ docEdits = 0

\* The ledger is empty and the cache is as the module initialises it.
IdleTaste ==
  /\ ledger = <<>>
  /\ nextId = 1
  /\ now = 0
  /\ clock = 0
  /\ cachedTaste = undefined
  /\ cacheTimestamp = 0
  /\ taste = undefined
  /\ hit = FALSE

\* No provider is being scored.
IdleScore ==
  /\ provider = bareProvider
  /\ effective = emptyProfile
  /\ experiences = <<>>
  /\ patterns = <<>>
  /\ ecosystemCtx = undefined
  /\ score = undefined
  /\ edits = 0

InitScore ==
  /\ \E f \in Fixtures : provider = f[1] /\ effective = f[2]
  /\ experiences = <<>>
  /\ patterns = <<>>
  /\ ecosystemCtx = undefined
  /\ score = undefined
  /\ edits = 0
  /\ IdleMerge
  /\ IdleTaste
  /\ IdleCalls
  /\ IdleTools

\* The ingestion pipeline rewrites one field of the catalog entry.
CatalogUpdate ==
  /\ edits < MaxEdits
  /\ \E f \in DOMAIN ProviderValues : \E v \in ProviderValues[f] :
       /\ provider[f] # v
       /\ provider' = [provider EXCEPT ![f] = v]
  /\ edits' = edits + 1
  /\ score' = undefined
  /\ UNCHANGED <<effective, experiences, patterns, ecosystemCtx>>
  /\ UNCHANGED othersScore

\* The effective profile changes in the project context, the required
\* compliance or the priority list.
ProfileUpdate ==
  /\ edits < MaxEdits
  /\ \/ \E v \in ProjectValues :
          /\ effective.project # v
          /\ effective' = [effective EXCEPT !.project = v]
     \/ \E v \in ComplianceValues :
          /\ effective.constraints.compliance # v
          /\ effective' = [effective EXCEPT !.constraints.compliance = v]
     \/ \E v \in PrioritizeValues :
          /\ effective.preferences.prioritize # v
          /\ effective' = [effective EXCEPT !.preferences.prioritize = v]
  /\ edits' = edits + 1
  /\ score' = undefined
  /\ UNCHANGED <<provider, experiences, patterns, ecosystemCtx>>
  /\ UNCHANGED othersScore

\* The taste of the category gains an experience or a pattern, or the
\* caller supplies an ecosystem context.
TasteUpdate ==
  /\ edits < MaxEdits
  /\ \/ \E e \in ExperienceValues :
          /\ experiences' = Append(experiences, e)
          /\ UNCHANGED <<patterns, ecosystemCtx>>
     \/ \E p \in PatternValues :
          /\ patterns' = Append(patterns, p)
          /\ UNCHANGED <<experiences, ecosystemCtx>>
     \/ \E c \in EcosystemValues :
          /\ ecosystemCtx # c
          /\ ecosystemCtx' = c
          /\ UNCHANGED <<experiences, patterns>>
  /\ edits' = edits + 1
  /\ score' = undefined
  /\ UNCHANGED <<provider, effective>>
  /\ UNCHANGED othersScore

\* One call of scoreProvider on the current inputs.
ScoreProvider ==
  /\ score = undefined
  /\ score' = Some(scoreProvider(provider, effective, experiences, patterns,
                                 ecosystemCtx, Today))
  /\ UNCHANGED <<provider, effective, experiences, patterns, ecosystemCtx, edits>>
  /\ UNCHANGED othersScore

NextScore == CatalogUpdate \/ ProfileUpdate \/ TasteUpdate \/ ScoreProvider

SpecScore == InitScore /\ [][NextScore]_vars

(***************************************************************************)
(* Claims about scoreProvider.  The reference quantities below are stated  *)
(* from the rules of the scoring contract, independently of the operators  *)
(* that model the code.                                                    *)
(***************************************************************************)
Scored == score # undefined

Required == OrElse(effective.constraints.compliance, <<>>)

Held == OrElse(provider.compliance, <<>>)

\* Certification c is among the provider's, whatever the letter case.
HoldsCert(c) == \E j \in 1..Len(Held) : toLowerCase(Held[j]) = toLowerCase(c)

MissesACert == \E i \in 1..Len(Required) : ~HoldsCert(Required[i])

ProjectScale ==
  IF effective.project = undefined THEN undefined ELSE Val(effective.project).scale

Priorities == OrElse(effective.preferences.prioritize, <<>>)

HoldsStrength(s) ==
  provider.strengths # undefined /\ \E k \in 1..Len(Val(provider.strengths)) :
                                       Val(provider.strengths)[k] = s

NameMatches(api) == toLowerCase(api) = toLowerCase(provider.name)

CountExperiences(outcome) ==
  Cardinality({i \in 1..Len(experiences) :
                 NameMatches(experiences[i].api) /\ experiences[i].outcome = outcome})

PatternMatches(p) == includes(toLowerCase(p.signal), toLowerCase(provider.name))

ScoreWith(prov, eff, exps, pats) ==
  scoreProvider(prov, eff, exps, pats, ecosystemCtx, Today)

\* C1: a provider that lacks a required certification (compared without
\* regard to letter case) scores exactly -1 whatever its other inputs are;
\* a provider that holds them all is not disqualified: it scores 20 more
\* than it does under the same profile without the requirement.
C1_ComplianceGate ==
  Scored =>
    /\ MissesACert => Val(score) = -ConfUnit
    /\ (Len(Required) > 0 /\ ~MissesACert) =>
         Val(score) =
           ScoreWith(provider, [effective EXCEPT !.constraints.compliance = undefined],
                     experiences, patterns) + Points(20)

C1_Witness ==
  /\ Scored
  /\ MissesACert
  /\ Val(score) = -ConfUnit
  /\ Len(experiences) + Len(patterns) > 0

\* The sum of the rule contributions, in units of 1/ConfUnit.
RuleSum ==
  LET n == Len(Priorities)
      scaleFit == IF provider.bestFor # undefined THEN Val(provider.bestFor)
                  ELSE IF provider.scale # undefined THEN Val(provider.scale)
                  ELSE <<>>
      issues == IF provider.knownIssues = undefined THEN <<>>
                ELSE Val(provider.knownIssues)
  IN Points(
       (IF Len(Required) > 0 THEN 20 ELSE 0)
       + (IF ProjectScale # undefined
             /\ \E k \in 1..Len(scaleFit) : scaleFit[k] = Val(ProjectScale)
          THEN 15 ELSE 0)
       + SumSeq([i \in 1..n |-> IF HoldsStrength(Priorities[i])
                                 THEN (n - (i - 1)) * 5 ELSE 0])
       + (IF ProjectScale \in {{"hobby"}, {"startup"}}
             /\ (provider.hasFreeTier = {TRUE} \/ provider.pricingFreeTier # undefined)
          THEN 10 ELSE 0)
       + (IF ecosystemCtx # undefined /\ provider.ecosystem # undefined
             /\ Val(provider.ecosystem) \in Val(ecosystemCtx)
          THEN 20 ELSE 0)
       + 8 * CountExperiences("positive")
       - 12 * CountExperiences("negative")
       - (IF provider.lastVerified # undefined
             /\ Today - Val(provider.lastVerified) > 90 THEN 5 ELSE 0)
       - (IF \E k \in 1..Len(issues) :
               issues[k].severity = "critical" /\ ~issues[k].resolved
          THEN 10 ELSE 0))
     + SumSeq([i \in 1..Len(patterns) |->
                 IF PatternMatches(patterns[i])
                    /\ startsWith(patterns[i].signal, prefersPrefix)
                 THEN 10 * patterns[i].confidence ELSE 0])
     - SumSeq([i \in 1..Len(patterns) |->
                 IF PatternMatches(patterns[i])
                    /\ startsWith(patterns[i].signal, dislikesPrefix)
                 THEN 15 * patterns[i].confidence ELSE 0])

InScenario ==
  /\ provider \in {scenarioProvider, [scenarioProvider EXCEPT !.hasFreeTier = {FALSE}]}
  /\ effective = scenarioProfile
  /\ experiences = <<>> /\ patterns = <<>> /\ ecosystemCtx = undefined

\* C2: a provider that passes the compliance gate scores the sum of the
\* rule contributions; the documented scenario scores 50 with a free tier
\* and 40 without.
C2_RuleSum ==
  Scored =>
    /\ ~MissesACert => Val(score) = RuleSum
    /\ InScenario =>
         Val(score) = Points(IF provider.hasFreeTier = {TRUE} THEN 50 ELSE 40)

C2_Witness ==
  /\ Scored
  /\ InScenario
  /\ provider.hasFreeTier = {FALSE}
  /\ Val(score) = Points(40)

Front(s) == SubSeq(s, 1, Len(s) - 1)

Last(s) == s[Len(s)]

\* C3: for a provider that is not disqualified, the last experience changes
\* the score by +8 (positive), -12 (negative) or 0 (neutral, or another
\* provider's), and the last pattern by +confidence x 10 (prefers),
\* -confidence x 15 (dislikes) or 0; so a negative experience weighs 1.5
\* times a positive one (2 x 12 = 3 x 8).
C3_EvidenceAdjustments ==
  (Scored /\ ~MissesACert) =>
    /\ experiences # <<>> =>
         LET e == Last(experiences)
             without == ScoreWith(provider, effective, Front(experiences), patterns)
             asPositive == ScoreWith(provider, effective,
                             Append(Front(experiences), [e EXCEPT !.outcome = "positive"]),
                             patterns)
         IN /\ Val(score) - without =
                 IF ~NameMatches(e.api) THEN 0
                 ELSE IF e.outcome = "positive" THEN Points(8)
                 ELSE IF e.outcome = "negative" THEN -Points(12)
                 ELSE 0
            /\ (NameMatches(e.api) /\ e.outcome = "negative") =>
                 2 * (without - Val(score)) = 3 * (asPositive - without)
    /\ patterns # <<>> =>
         LET p == Last(patterns)
             without == ScoreWith(provider, effective, experiences, Front(patterns))
         IN Val(score) - without =
              IF ~PatternMatches(p) THEN 0
              ELSE IF startsWith(p.signal, prefersPrefix) THEN 10 * p.confidence
              ELSE IF startsWith(p.signal, dislikesPrefix) THEN -(15 * p.confidence)
              ELSE 0

\* One prior negative decision about the provider, recorded in another
\* letter case, and nothing else: 12 below the no-history baseline.
C3_Witness ==
  /\ Scored
  /\ ~MissesACert
  /\ experiences = <<[api |-> mux, outcome |-> "negative"]>>
  /\ provider.name = Mux
  /\ Val(score) = ScoreWith(provider, effective, <<>>, patterns) - Points(12)

\* The list p with its i-th element moved to position j.
Move(p, i, j) ==
  [k \in 1..Len(p) |->
     IF k < i \/ k > j THEN p[k] ELSE IF k = j THEN p[i] ELSE p[k + 1]]

WithPriorities(q) == [effective EXCEPT !.preferences.prioritize = {q}]

\* C4 as claimed: with a held strength at the earlier of two positions the
\* score is strictly larger, all other inputs equal.
C4_StrictlyLarger ==
  (Scored /\ ~MissesACert) =>
    \A i \in 1..Len(Priorities) : \A j \in (i + 1)..Len(Priorities) :
      HoldsStrength(Priorities[i]) =>
        Val(score) >
          ScoreWith(provider, WithPriorities(Move(Priorities, i, j)),
                    experiences, patterns)

\* The strengths that p[i] passes over when it moves to position j and
\* that the provider does not hold.
PassedNotHeld(p, i, j) ==
  Cardinality({k \in (i + 1)..j : ~HoldsStrength(p[k])})

\* C4: with a held strength at the earlier of two positions i < j, the
\* score is larger by 5 for every strength between the two positions that
\* the provider does not hold: never smaller, and strictly larger exactly
\* when there is such a strength.
C4_PriorityPosition ==
  (Scored /\ ~MissesACert) =>
    \A i \in 1..Len(Priorities) : \A j \in (i + 1)..Len(Priorities) :
      HoldsStrength(Priorities[i]) =>
        Val(score) -
          ScoreWith(provider, WithPriorities(Move(Priorities, i, j)),
                    experiences, patterns)
        = Points(5 * PassedNotHeld(Priorities, i, j))

C4_Witness ==
  /\ Scored
  /\ ~MissesACert
  /\ Priorities = <<"dx", "reliability">>
  /\ HoldsStrength("dx") /\ ~HoldsStrength("reliability")
  /\ Val(score) =
       ScoreWith(provider, WithPriorities(<<"reliability", "dx">>),
                 experiences, patterns) + Points(5)

NoFreeTier == [provider EXCEPT !.hasFreeTier = undefined, !.pricingFreeTier = undefined]

\* C5: the free-tier bonus of 10 is added exactly when the project scale
\* is hobby or startup and the provider has the hasFreeTier flag or a
\* pricing.freeTier entry.
C5_FreeTierBonus ==
  (Scored /\ ~MissesACert) =>
    Val(score) - ScoreWith(NoFreeTier, effective, experiences, patterns) =
      IF /\ ProjectScale \in {{"hobby"}, {"startup"}}
         /\ (provider.hasFreeTier = {TRUE} \/ provider.pricingFreeTier # undefined)
      THEN Points(10) ELSE 0

\* Only the pricing entry signals the free tier, and the bonus is given.
C5_Witness ==
  /\ Scored
  /\ ~MissesACert
  /\ ProjectScale = {"startup"}
  /\ provider.hasFreeTier # {TRUE}
  /\ provider.pricingFreeTier # undefined
  /\ Val(score) = ScoreWith(NoFreeTier, effective, experiences, patterns) + Points(10)

\* The provider without its known issues.
NoKnownIssues == [provider EXCEPT !.knownIssues = undefined]

\* The provider has a known issue of severity critical that is not
\* resolved.
HasUnresolvedCritical ==
  /\ provider.knownIssues # undefined
  /\ \E k \in 1..Len(Val(provider.knownIssues)) :
       /\ Val(provider.knownIssues)[k].severity = "critical"
       /\ ~Val(provider.knownIssues)[k].resolved

\* C26: a provider that passes the gate scores 10 less than it does
\* without its known issues when one or several of them are critical and
\* unresolved, and the same as without them otherwise.
C26_CriticalPenalty ==
  (Scored /\ ~MissesACert) =>
    ScoreWith(NoKnownIssues, effective, experiences, patterns) - Val(score) =
      IF HasUnresolvedCritical THEN Points(10) ELSE 0

\* A provider with two unresolved critical issues was scored, 10 below its
\* score without them.
C26_Witness ==
  /\ Scored
  /\ ~MissesACert
  /\ provider.knownIssues = Some(<<unresolvedCritical, unresolvedCritical>>)
  /\ Val(score) = ScoreWith(NoKnownIssues, effective, experiences, patterns) - Points(10)

\* A provider whose only issue is resolved, or of severity high, was
\* scored as without it.
C26_NoPenaltyWitness ==
  /\ Scored
  /\ ~MissesACert
  /\ provider.knownIssues \in {Some(<<resolvedCritical>>), Some(<<unresolvedHigh>>)}
  /\ Val(score) = ScoreWith(NoKnownIssues, effective, experiences, patterns)

\* C30: scoreProvider returns -1 only when the compliance gate fails.
C30_SentinelUnambiguous ==
  Scored => (Val(score) = -ConfUnit => MissesACert)

\* The gate fails exactly when a required certification is missing, and
\* then the score is -1.
C30_GateGivesSentinel ==
  Scored => (MissesACert => Val(score) = -ConfUnit)

(***************************************************************************)
(* The profile documents and loadEffectiveProfile.                         *)
(***************************************************************************)
\* A global defaults document and a local profile that define the same
\* fields with different values.
sharedDefaults ==
  [constraints |->
     Some([EmptyConstraints EXCEPT
             !.compliance = Some(<<SOC2>>),
             !.selfHosted = Some(TRUE),
             !.budgetCeiling = Some([monthly |-> Some(100), perRequest |-> undefined])]),
   preferences |->
     Some([EmptyPreferences EXCEPT
             !.prioritize = Some(<<"cost">>),
             !.avoidProviders = Some(<<Mux>>)])]

startupProfile ==
  [project |-> Some([scale |-> Some("startup")]),
   constraints |->
     Some([EmptyConstraints EXCEPT
             !.compliance = Some(<<HIPAA, SOC2>>),
             !.selfHosted = Some(FALSE),
             !.budgetCeiling = Some([monthly |-> Some(50), perRequest |-> Some(2)])]),
   preferences |->
     Some([EmptyPreferences EXCEPT
             !.prioritize = Some(<<"dx">>),
             !.avoidProviders = Some(<<Neon>>)])]

\* The documents a first save creates.
newDefaults == [constraints |-> undefined, preferences |-> undefined]

newProfile ==
  [project |-> undefined, constraints |-> undefined, preferences |-> undefined]

DocFixtures ==
  { <<undefined, undefined>>,
    <<undefined, Some(newProfile)>>,
    <<Some(sharedDefaults), Some(startupProfile)>> }

\* The values a save may give to one field of a document's constraints and
\* preferences.
ConstraintValues ==
  [compliance |-> {undefined, Some(<<SOC2>>), Some(<<HIPAA, SOC2>>),
                   Some(<<SOC2, SOC2>>)},
   dataResidency |-> {undefined, Some(<<"eu">>)},
   selfHosted |-> {undefined, Some(TRUE), Some(FALSE)},
   vendorLockInTolerance |-> {undefined, Some("low")},
   budgetCeiling |-> {undefined,
                      Some([monthly |-> undefined, perRequest |-> undefined]),
                      Some([monthly |-> Some(100), perRequest |-> undefined]),
                      Some([monthly |-> Some(50), perRequest |-> Some(2)])}]

PreferenceValues ==
  [prioritize |-> {undefined, Some(<<"dx">>), Some(<<"cost", "dx">>)},
   riskTolerance |-> {undefined, Some("low")},
   avoidProviders |-> {undefined, Some(<<Mux>>), Some(<<mux, Neon>>),
                       Some(<<Neon, Neon>>)}]

\* The document `doc` with one field of its constraints or preferences
\* replaced (the section is created when the document has none).
WithConstraint(doc, k, v) ==
  [doc EXCEPT !.constraints = Some([OrElse(@, EmptyConstraints) EXCEPT ![k] = v])]

WithPreference(doc, k, v) ==
  [doc EXCEPT !.preferences = Some([OrElse(@, EmptyPreferences) EXCEPT ![k] = v])]

InitMerge ==
  /\ \E f \in DocFixtures : globalDefaults = f[1] /\ localProfile = f[2]
  /\ loaded = undefined
  /\ docEdits = 0
  /\ IdleScore
  /\ IdleTaste
  /\ IdleCalls
  /\ IdleTools

\* saveGlobalDefaults: the defaults document is replaced by one that
\* differs in one field.
SaveGlobalDefaults ==
  /\ docEdits < MaxEdits
  /\ LET doc == OrElse(globalDefaults, newDefaults)
     IN \/ \E k \in DOMAIN ConstraintValues : \E v \in ConstraintValues[k] :
             globalDefaults' = Some(WithConstraint(doc, k, v))
        \/ \E k \in DOMAIN PreferenceValues : \E v \in PreferenceValues[k] :
             globalDefaults' = Some(WithPreference(doc, k, v))
  /\ globalDefaults' # globalDefaults
  /\ docEdits' = docEdits + 1
  /\ UNCHANGED <<localProfile, loaded>>
  /\ UNCHANGED othersMerge

\* saveLocalProfile: the local profile is replaced by one that differs in
\* the project context or in one field.
SaveLocalProfile ==
  /\ docEdits < MaxEdits
  /\ LET doc == OrElse(localProfile, newProfile)
     IN \/ \E v \in ProjectValues :
             localProfile' = Some([doc EXCEPT !.project = v])
        \/ \E k \in DOMAIN ConstraintValues : \E v \in ConstraintValues[k] :
             localProfile' = Some(WithConstraint(doc, k, v))
        \/ \E k \in DOMAIN PreferenceValues : \E v \in PreferenceValues[k] :
             localProfile' = Some(WithPreference(doc, k, v))
  /\ localProfile' # localProfile
  /\ docEdits' = docEdits + 1
  /\ UNCHANGED <<globalDefaults, loaded>>
  /\ UNCHANGED othersMerge

\* One call of loadEffectiveProfile on the documents on disk.
LoadEffectiveProfile ==
  /\ loaded' = Some(loadEffectiveProfile(globalDefaults, localProfile))
  /\ loaded' # loaded
  /\ UNCHANGED <<globalDefaults, localProfile, docEdits>>
  /\ UNCHANGED othersMerge

NextMerge == SaveGlobalDefaults \/ SaveLocalProfile \/ LoadEffectiveProfile

SpecMerge == InitMerge /\ [][NextMerge]_vars

(***************************************************************************)
(* Claims about the merge.  The reference relation FollowsPolicy is stated *)
(* from the policy rules, independently of applyMergePolicy; the policy of *)
(* every field is taken from the declared table MERGE_POLICIES.            *)
(***************************************************************************)
MERGE_POLICIES ==
  [compliance |-> "union", dataResidency |-> "union",
   mustHaveFeatures |-> "union", dealbreakers |-> "union",
   requiredSdkLanguages |-> "union", selfHosted |-> "override",
   vendorLockInTolerance |-> "override", prioritize |-> "override",
   riskTolerance |-> "override", avoidProviders |-> "union",
   preferredProviders |-> "override"]

ConstraintKeys ==
  {"compliance", "dataResidency", "mustHaveFeatures", "dealbreakers",
   "requiredSdkLanguages", "selfHosted", "vendorLockInTolerance"}

PreferenceKeys == {"prioritize", "riskTolerance", "avoidProviders", "preferredProviders"}

CeilingKeys == {"monthly", "perRequest"}

Loaded == loaded # undefined

\* The sections of the documents the last load read, and of its result.
GlobalConstraints == Get(Val(loaded).globalDefaults, "constraints")
LocalConstraints == Get(Val(loaded).localProfile, "constraints")
GlobalPreferences == Get(Val(loaded).globalDefaults, "preferences")
LocalPreferences == Get(Val(loaded).localProfile, "preferences")
EffectiveConstraints == Val(loaded).effective.constraints
EffectivePreferences == Val(loaded).effective.preferences

FirstIndex(s, x) == CHOOSE k \in 1..Len(s) : s[k] = x /\ \A m \in 1..(k - 1) : s[m] # x

HasDuplicates(s) == \E i, j \in 1..Len(s) : i # j /\ s[i] = s[j]

\* e lists every value of g and of l once, the global items first.
IsOrderedUnion(e, g, l) ==
  LET all == g \o l
  IN /\ ~HasDuplicates(e)
     /\ {e[i] : i \in 1..Len(e)} = {all[i] : i \in 1..Len(all)}
     /\ \A i, j \in 1..Len(e) :
          i < j => FirstIndex(all, e[i]) < FirstIndex(all, e[j])

FollowsPolicy(policy, g, l, e) ==
  IF g = undefined /\ l = undefined THEN e = undefined
  ELSE IF l = undefined THEN e = g
  ELSE IF g = undefined THEN e = l
  ELSE CASE policy = "override" -> e = l
         [] policy = "union" ->
              e # undefined /\ IsOrderedUnion(Val(e), Val(g), Val(l))
         [] policy = "min" ->
              /\ e # undefined
              /\ Val(e) \in {Val(g), Val(l)}
              /\ Val(e) <= Val(g)
              /\ Val(e) <= Val(l)

\* C9: in the result of loadEffectiveProfile every constraint and
\* preference field follows its declared policy: override gives the local
\* value when both sides define the field, union the global items followed
\* by the local items without duplicates, min the smaller budget ceiling;
\* a field defined on one side only has that side's value, and a field
\* defined on neither side is absent.
C9_MergePolicies ==
  Loaded =>
    /\ \A k \in ConstraintKeys :
         FollowsPolicy(MERGE_POLICIES[k], Get(GlobalConstraints, k),
                       Get(LocalConstraints, k), EffectiveConstraints[k])
    /\ \A k \in PreferenceKeys :
         FollowsPolicy(MERGE_POLICIES[k], Get(GlobalPreferences, k),
                       Get(LocalPreferences, k), EffectivePreferences[k])
    /\ \A k \in CeilingKeys :
         FollowsPolicy("min", Get(Get(GlobalConstraints, "budgetCeiling"), k),
                       Get(Get(LocalConstraints, "budgetCeiling"), k),
                       Get(EffectiveConstraints.budgetCeiling, k))
    /\ DOMAIN EffectiveConstraints = ConstraintKeys \cup {"budgetCeiling"}
    /\ DOMAIN EffectivePreferences = PreferenceKeys

\* A load that merged a union field whose two lists overlap, an override
\* field with two different values, a ceiling whose global value is the
\* smaller one, a field only the global side defines and a field neither
\* side defines.
C9_Witness ==
  /\ Loaded
  /\ Get(GlobalConstraints, "compliance") = Some(<<SOC2>>)
  /\ Get(LocalConstraints, "compliance") = Some(<<HIPAA, SOC2>>)
  /\ EffectiveConstraints.compliance = Some(<<SOC2, HIPAA>>)
  /\ Get(GlobalConstraints, "selfHosted") = Some(TRUE)
  /\ EffectiveConstraints.selfHosted = Some(FALSE)
  /\ Get(Get(GlobalConstraints, "budgetCeiling"), "monthly") = Some(50)
  /\ Get(Get(LocalConstraints, "budgetCeiling"), "monthly") = Some(100)
  /\ Get(EffectiveConstraints.budgetCeiling, "monthly") = Some(50)
  /\ Get(Get(LocalConstraints, "budgetCeiling"), "perRequest") = undefined
  /\ Get(EffectiveConstraints.budgetCeiling, "perRequest") = Some(2)
  /\ EffectiveConstraints.dataResidency = undefined

\* C10: merging the result of a merge with the same local document again
\* gives the same effective constraints and preferences.
C10_Idempotent ==
  Loaded =>
    /\ mergeConstraints(Some(EffectiveConstraints), LocalConstraints).merged
         = EffectiveConstraints
    /\ mergePreferences(Some(EffectivePreferences), LocalPreferences).merged
         = EffectivePreferences

\* The constraint and preference fields, by path, with the policy declared
\* for each and their values in the two documents the last load read and
\* in its effective profile.
ProvenanceFields ==
  {<<"constraints", k>> : k \in ConstraintKeys}
    \cup {<<"constraints", "budgetCeiling", k>> : k \in CeilingKeys}
    \cup {<<"preferences", k>> : k \in PreferenceKeys}

DeclaredPolicy(path) ==
  IF Len(path) = 2 THEN MERGE_POLICIES[path[2]] ELSE "min"

AtPath(constraints, preferences, path) ==
  IF path[1] = "preferences" THEN Get(preferences, path[2])
  ELSE IF Len(path) = 2 THEN Get(constraints, path[2])
  ELSE Get(Get(constraints, path[2]), path[3])

GlobalAt(path) == AtPath(GlobalConstraints, GlobalPreferences, path)

LocalAt(path) == AtPath(LocalConstraints, LocalPreferences, path)

EffectiveAt(path) == AtPath(Some(EffectiveConstraints), Some(EffectivePreferences), path)

RecordsOf(path) == SelectSeq(Val(loaded).mergeDetails, LAMBDA d : d.field = path)

\* C24: loadEffectiveProfile returns one provenance record for every
\* constraint and preference field defined on at least one side and none
\* for a field defined on neither; the record names the field path and the
\* declared policy, and its globalValue, localValue and effectiveValue are
\* the values of the two documents and of the effective profile at that
\* path.
C24_Provenance ==
  Loaded =>
    /\ \A path \in ProvenanceFields :
         IF GlobalAt(path) # undefined \/ LocalAt(path) # undefined
         THEN /\ Len(RecordsOf(path)) = 1
              /\ RecordsOf(path)[1] =
                   [field |-> path, policy |-> DeclaredPolicy(path),
                    globalValue |-> GlobalAt(path), localValue |-> LocalAt(path),
                    effectiveValue |-> EffectiveAt(path)]
              /\ EffectiveAt(path) # undefined
         ELSE RecordsOf(path) = <<>>
    /\ \A i \in 1..Len(Val(loaded).mergeDetails) :
         Val(loaded).mergeDetails[i].field \in ProvenanceFields

\* A load with a record for a field only the global side defines, a record
\* for a ceiling both sides define, and no record for a field neither side
\* defines.
C24_Witness ==
  /\ Loaded
  /\ \E path \in ProvenanceFields :
       /\ GlobalAt(path) # undefined
       /\ LocalAt(path) = undefined
       /\ Len(RecordsOf(path)) = 1
  /\ GlobalAt(<<"constraints", "budgetCeiling", "monthly">>) # undefined
  /\ LocalAt(<<"constraints", "budgetCeiling", "monthly">>) # undefined
  /\ Len(RecordsOf(<<"constraints", "budgetCeiling", "monthly">>)) = 1
  /\ \E path \in ProvenanceFields :
       /\ GlobalAt(path) = undefined
       /\ LocalAt(path) = undefined
       /\ RecordsOf(path) = <<>>

(***************************************************************************)
(* The ledger, the pattern cache and computePatterns, one call at a time.  *)
(***************************************************************************)
CACHE_TTL_MS == 30000

CACHE_TTL_SECONDS == CACHE_TTL_MS \div 1000

SECONDS_PER_DAY == 86400

\* Date.now(), in seconds.
DateNow == now * PERIOD_DAYS * SECONDS_PER_DAY + clock

isFresh_Always(cached, timestamp, dateNow) == cached # undefined

isFresh_Inclusive(cached, timestamp, dateNow) ==
  cached # undefined /\ (dateNow - timestamp) <= CACHE_TTL_SECONDS

\* `cachedTaste && (Date.now() - cacheTimestamp) < CACHE_TTL_MS`
isFresh(cached, timestamp, dateNow) ==
  cached # undefined /\ (dateNow - timestamp) < CACHE_TTL_SECONDS

invalidatePatternCache_Keep ==
  [cachedTaste |-> cachedTaste, cacheTimestamp |-> cacheTimestamp]

\* The module variables after invalidatePatternCache().
invalidatePatternCache == [cachedTaste |-> undefined, cacheTimestamp |-> 0]

mvpContext == <<"M","V","P">>

scaleContext == <<"S","c","a","l","e">>

\* The inputs of record_decision.
RecordInputs ==
  { [api |-> Mux, category |-> email, outcome |-> "positive", context |-> Some(mvpContext)],
    [api |-> Mux, category |-> email, outcome |-> "negative", context |-> Some(mvpContext)],
    [api |-> Neon, category |-> sms, outcome |-> "neutral", context |-> Some(scaleContext)] }

\* The entries of a legacy profile history; their dates are whatever the
\* profile says: the oldest date of the model, or a date ahead of the clock.
LegacyInputs ==
  [api : {Mux}, category : {email}, outcome : {"positive"}, date : {0, now + 1}]

HalfLives == {90, DEFAULT_DECAY_HALF_LIFE_DAYS}

InitPatterns ==
  /\ IdleTaste
  /\ IdleCalls
  /\ IdleTools
  /\ IdleScore
  /\ IdleMerge

\* The record_decision handler, run without interruption: recordDecision
\* appends the decision, then the cache is invalidated and computePatterns
\* recomputes and stores the taste.
RecordDecision ==
  /\ Len(ledger) < MaxDecisions
  /\ \E input \in RecordInputs :
       LET decision == [id |-> nextId, api |-> input.api, category |-> input.category,
                        outcome |-> input.outcome, context |-> input.context,
                        notes |-> undefined, notesPrivate |-> FALSE,
                        date |-> now]
           result == computePatterns(loadAllDecisions(ownProject(Append(ledger, decision))),
                                     DEFAULT_DECAY_HALF_LIFE_DAYS, now)
       IN /\ ledger' = Append(ledger, decision)
          /\ ~isFresh(invalidatePatternCache.cachedTaste,
                      invalidatePatternCache.cacheTimestamp, DateNow)
          /\ cachedTaste' = Some(result)
          /\ cacheTimestamp' = DateNow
          /\ taste' = cachedTaste'
          /\ hit' = FALSE
  /\ nextId' = nextId + 1
  /\ UNCHANGED <<now, clock>>
  /\ UNCHANGED varsCalls
  /\ UNCHANGED othersTaste

\* migrateFromLegacyProfile with one legacy entry: it is appended unless a
\* decision with the same api, category and date exists; the cache is left
\* alone.
MigrateFromLegacyProfile ==
  /\ Len(ledger) < MaxDecisions
  /\ \E legacy \in LegacyInputs :
       /\ \A i \in 1..Len(ledger) :
            <<ledger[i].api, ledger[i].category, ledger[i].date>>
              # <<legacy.api, legacy.category, legacy.date>>
       /\ ledger' = Append(ledger,
                           [id |-> nextId, api |-> legacy.api,
                            category |-> legacy.category, outcome |-> legacy.outcome,
                            context |-> undefined, notes |-> undefined,
                            notesPrivate |-> FALSE, date |-> legacy.date])
  /\ nextId' = nextId + 1
  /\ UNCHANGED <<now, clock, cachedTaste, cacheTimestamp, taste, hit>>
  /\ UNCHANGED varsCalls
  /\ UNCHANGED othersTaste

\* A period passes.
AdvanceTime ==
  /\ now < MaxAgePeriods
  /\ now' = now + 1
  /\ UNCHANGED <<ledger, nextId, clock, cachedTaste, cacheTimestamp, taste, hit>>
  /\ UNCHANGED varsCalls
  /\ UNCHANGED othersTaste

\* One call of computePatterns, run without interruption.
ComputePatterns ==
  /\ \E halfLifeDays \in HalfLives :
       IF isFresh(cachedTaste, cacheTimestamp, DateNow)
       THEN /\ taste' = cachedTaste
            /\ hit' = TRUE
            /\ UNCHANGED <<cachedTaste, cacheTimestamp>>
       ELSE LET result == computePatterns(loadAllDecisions(ownProject(ledger)), halfLifeDays, now)
            IN /\ cachedTaste' = Some(result)
               /\ cacheTimestamp' = DateNow
               /\ taste' = cachedTaste'
               /\ hit' = FALSE
  /\ UNCHANGED <<ledger, nextId, now, clock>>
  /\ UNCHANGED varsCalls
  /\ UNCHANGED othersTaste

NextPatterns ==
  \/ RecordDecision
  \/ MigrateFromLegacyProfile
  \/ AdvanceTime
  \/ ComputePatterns

SpecPatterns == InitPatterns /\ [][NextPatterns]_vars


(***************************************************************************)
(* Claims about computePatterns.  The reference confidence of a signal is  *)
(* stated from the contract: every decision that emits the signal          *)
(* contributes +1, -0.5 or 0 times its decay weight 0.5^(age / half-life), *)
(* and the sum is divided by the larger of 3 and the number of these       *)
(* decisions.  It is computed from the experiences and the computedAt of   *)
(* the returned taste, which record the decisions it was computed from.    *)
(***************************************************************************)
Returned == taste # undefined

ReturnedPatterns == Val(taste).patterns

\* The signals of every experience of a taste, in the order of the
\* experiences.
RECURSIVE SignalsOf(_)
SignalsOf(exps) ==
  IF exps = <<>> THEN <<>> ELSE <<detectSignals(Head(exps))>> \o SignalsOf(Tail(exps))

\* 2^MaxHalvings times the weight of a decision of age `age` periods, an
\* integer for the ages and the half-lives of the model.
RefWeight(age, halfLifeDays) ==
  LET halvings == (age * PERIOD_DAYS) \div halfLifeDays
  IN IF halvings >= 0
     THEN CHOOSE w \in 1..WeightUnit : w * Pow2(halvings) = WeightUnit
     ELSE WeightUnit * Pow2(-halvings)

\* Twice the contribution of experience e: +1, -0.5 or 0 times its weight.
RefContribution(e, computedAt, halfLifeDays) ==
  CASE e.outcome = "positive" -> 2 * RefWeight(computedAt - e.date, halfLifeDays)
    [] e.outcome = "negative" -> -RefWeight(computedAt - e.date, halfLifeDays)
    [] OTHER -> 0

RECURSIVE SumOver(_, _)
SumOver(S, f) ==
  IF S = {} THEN 0
  ELSE LET i == CHOOSE x \in S : TRUE IN f[i] + SumOver(S \ {i}, f)

PatternsOf(t, signal) ==
  {i \in 1..Len(t.patterns) : t.patterns[i].signal = signal}

\* The taste t is what the contract prescribes for half-life halfLifeDays:
\* with the reference confidence num / den of a signal, a signal below 0.2
\* has no pattern and every other signal has exactly one, with its
\* confidence capped at 1.
AsContract(t, halfLifeDays) ==
  LET signals == SignalsOf(t.experiences)
      emitted == UNION {{signals[i][k] : k \in 1..Len(signals[i])} :
                        i \in 1..Len(signals)}
      contributions ==
        SelectSeq([i \in 1..Len(t.experiences) |->
                     RefContribution(t.experiences[i], t.computedAt, halfLifeDays)],
                  LAMBDA c : TRUE)
  IN /\ \A i \in 1..Len(t.patterns) : t.patterns[i].signal \in emitted
     /\ \A signal \in emitted :
          LET emitters == {i \in 1..Len(signals) : arrayIncludes(signals[i], signal)}
              num == SumOver(emitters, contributions)
              den == 2 * WeightUnit
                       * (IF Cardinality(emitters) > 3 THEN Cardinality(emitters) ELSE 3)
              found == PatternsOf(t, signal)
          IN IF 5 * num < den
             THEN found = {}
             ELSE /\ Cardinality(found) = 1
                  /\ \A i \in found :
                       IF num >= den THEN t.patterns[i].confidence = ConfUnit
                       ELSE t.patterns[i].confidence * den = num * ConfUnit

\* The numerator of the reference confidence of one signal, and the
\* signals the experiences of a taste emit.
RefNum(t, signal, halfLifeDays) ==
  LET signals == SignalsOf(t.experiences)
  IN SumOver({i \in 1..Len(signals) : arrayIncludes(signals[i], signal)},
             [i \in 1..Len(signals) |->
                RefContribution(t.experiences[i], t.computedAt, halfLifeDays)])

EmittedSignals(t) ==
  LET signals == SignalsOf(t.experiences)
  IN UNION {{signals[i][k] : k \in 1..Len(signals[i])} : i \in 1..Len(signals)}

Emitters(t, signal) ==
  {i \in 1..Len(t.experiences) : arrayIncludes(detectSignals(t.experiences[i]), signal)}

DateOfDecision(t, id) ==
  t.experiences[CHOOSE i \in 1..Len(t.experiences) : t.experiences[i].id = id].date

IsNegativeSignal(signal) ==
  startsWith(signal, dislikesPrefix) \/ startsWith(signal, negativePrefix)

TICK_SECONDS == 15

\* The input of the record_decision calls that run interleaved.
HandlerInputs ==
  { [api |-> Mux, category |-> email, outcome |-> "positive", context |-> Some(mvpContext)] }

InitCache ==
  /\ IdleTaste
  /\ IdleCalls
  /\ IdleTools
  /\ IdleScore
  /\ IdleMerge

\* The synchronous start of computePatterns in handler h, on the cache
\* `cached` / `timestamp`, for a call that starts after the record calls
\* `see`: the cached taste is returned when fresh, else the call goes on to
\* loadAllDecisions.
StartCompute(h, cached, timestamp, see) ==
  IF isFresh(cached, timestamp, DateNow)
  THEN /\ calls' = [calls EXCEPT ![h] = [idleCall EXCEPT !.pc = "done",
                                                          !.result = cached,
                                                          !.hit = TRUE]]
       /\ audit' = [audit EXCEPT ![h] = [idleAudit EXCEPT !.see = see,
                                                          !.origin = stored,
                                                          !.age = DateNow - Val(stored).at]]
  ELSE /\ calls' = [calls EXCEPT ![h] = [idleCall EXCEPT !.pc = "loading"]]
       /\ audit' = [audit EXCEPT ![h] = [idleAudit EXCEPT !.see = see]]

\* A handler that takes the taste (recommend, get_taste) calls
\* computePatterns.
CP_Start(h) ==
  /\ calls[h].pc = "idle"
  /\ StartCompute(h, cachedTaste, cacheTimestamp, returned)
  /\ UNCHANGED <<version, returned, stored, invalidated>>
  /\ UNCHANGED varsTaste
  /\ UNCHANGED othersTaste
  /\ UNCHANGED writtenAt

\* loadAllDecisions reads the decisions file.
CP_Load(h) ==
  /\ calls[h].pc = "loading"
  /\ calls' = [calls EXCEPT ![h].pc = "computing", ![h].snapshot = ledger]
  /\ audit' = [audit EXCEPT ![h].readVersion = version]
  /\ UNCHANGED <<version, returned, stored, invalidated>>
  /\ UNCHANGED varsTaste
  /\ UNCHANGED othersTaste
  /\ UNCHANGED writtenAt

\* The patterns are computed from what was read, stored in the cache and
\* returned.
CP_Store(h) ==
  /\ calls[h].pc = "computing"
  /\ LET result == computePatterns(loadAllDecisions(ownProject(calls[h].snapshot)),
                                   DEFAULT_DECAY_HALF_LIFE_DAYS, now)
     IN /\ cachedTaste' = Some(result)
        /\ cacheTimestamp' = DateNow
        /\ calls' = [calls EXCEPT ![h].pc = "done", ![h].result = cachedTaste']
        /\ stored' = Some([at |-> DateNow, result |-> cachedTaste',
                           snapshot |-> calls[h].snapshot,
                           readVersion |-> audit[h].readVersion,
                           storerSee |-> audit[h].see,
                           storedSee |-> returned])
  /\ invalidated' = FALSE
  /\ UNCHANGED <<version, returned, audit>>
  /\ UNCHANGED <<ledger, nextId, now, clock, taste, hit>>
  /\ UNCHANGED othersTaste
  /\ UNCHANGED writtenAt

\* The handler sends its response.
Finish(h) ==
  /\ calls[h].pc = "done"
  /\ calls' = [calls EXCEPT ![h] = idleCall]
  /\ audit' = [audit EXCEPT ![h] = idleAudit]
  /\ UNCHANGED <<version, returned, stored, invalidated>>
  /\ UNCHANGED varsTaste
  /\ UNCHANGED othersTaste
  /\ UNCHANGED writtenAt

\* record_decision: recordDecision reads the decisions file and builds the
\* new decision.
RD_Load(h) ==
  /\ calls[h].pc = "idle"
  /\ nextId <= MaxRecords
  /\ \E input \in HandlerInputs :
       calls' = [calls EXCEPT
                   ![h] = [idleCall EXCEPT
                             !.pc = "writing",
                             !.snapshot = ledger,
                             !.decision =
                               Some([id |-> nextId, api |-> input.api,
                                     category |-> input.category,
                                     outcome |-> input.outcome,
                                     context |-> input.context,
                                     notes |-> undefined, notesPrivate |-> FALSE,
                                     date |-> now])]]
  /\ nextId' = nextId + 1
  /\ UNCHANGED <<ledger, now, clock, cachedTaste, cacheTimestamp, taste, hit>>
  /\ UNCHANGED <<version, returned, audit, stored, invalidated>>
  /\ UNCHANGED othersTaste
  /\ UNCHANGED writtenAt

\* saveProjectDecisions writes the whole file: what was read, with the new
\* decision appended.
RD_Write(h) ==
  /\ calls[h].pc = "writing"
  /\ ledger' = Append(calls[h].snapshot, Val(calls[h].decision))
  /\ version' = version + 1
  /\ calls' = [calls EXCEPT ![h].pc = "written"]
  /\ audit' = [audit EXCEPT ![h].wrote = version']
  /\ UNCHANGED <<nextId, now, clock, cachedTaste, cacheTimestamp, taste, hit>>
  /\ UNCHANGED <<returned, stored, invalidated>>
  /\ UNCHANGED othersTaste
  /\ UNCHANGED writtenAt

\* recordDecision has returned: the handler invalidates the cache and
\* starts computePatterns.
RD_Return(h) ==
  /\ calls[h].pc = "written"
  /\ returned' = returned \cup {[id |-> Val(calls[h].decision).id,
                                 version |-> audit[h].wrote]}
  /\ invalidated' = TRUE
  /\ cachedTaste' = invalidatePatternCache.cachedTaste
  /\ cacheTimestamp' = invalidatePatternCache.cacheTimestamp
  /\ StartCompute(h, cachedTaste', cacheTimestamp', returned')
  /\ UNCHANGED <<version, stored>>
  /\ UNCHANGED <<ledger, nextId, now, clock, taste, hit>>
  /\ UNCHANGED othersTaste
  /\ UNCHANGED writtenAt

\* Time passes.
Tick ==
  /\ clock < MaxTicks * TICK_SECONDS
  /\ clock' = clock + TICK_SECONDS
  /\ UNCHANGED <<ledger, nextId, now, cachedTaste, cacheTimestamp, taste, hit>>
  /\ UNCHANGED varsCalls
  /\ UNCHANGED othersTaste

NextCache ==
  \/ \E h \in Handlers : CP_Start(h)
  \/ \E h \in Handlers : CP_Load(h)
  \/ \E h \in Handlers : CP_Store(h)
  \/ \E h \in Handlers : Finish(h)
  \/ \E h \in Handlers : RD_Load(h)
  \/ \E h \in Handlers : RD_Write(h)
  \/ \E h \in Handlers : RD_Return(h)
  \/ Tick

SpecCache == InitCache /\ [][NextCache]_vars


(***************************************************************************)
(* Claims about the pattern cache.                                         *)
(***************************************************************************)
Done(h) == calls[h].pc = "done"

ExperienceIds(t) == {t.experiences[i].id : i \in 1..Len(t.experiences)}

\* C7: a computePatterns call that started after a record call had
\* returned is computed from a ledger that contains the recorded decision.
C7_SeesEveryReturnedRecord ==
  \A h \in Handlers :
    Done(h) =>
      \A r \in audit[h].see : r.id \in ExperienceIds(Val(calls[h].result))

\* C7, as the code has it: a call that started after a record call had
\* returned either is computed from the decisions file as read after that
\* record's write, or is served from the cache a taste that a computation
\* begun before the record returned has stored after the invalidation, less
\* than 30 seconds before the call.
C7_FreshReadOrBoundedStale ==
  \A h \in Handlers :
    Done(h) =>
      \A r \in audit[h].see :
        IF calls[h].hit
        THEN LET origin == Val(audit[h].origin)
             IN \/ origin.readVersion >= r.version
                \/ /\ r \notin origin.storerSee
                   /\ r \in origin.storedSee
                   /\ audit[h].age < CACHE_TTL_SECONDS
        ELSE audit[h].readVersion >= r.version

\* A call that started after a record call had returned and was served,
\* from the cache, a taste read before that record's write; the decisions
\* file holds the decision, the served taste does not.
C7_Witness ==
  \E h \in Handlers :
    /\ Done(h)
    /\ calls[h].hit
    /\ \E r \in audit[h].see :
         /\ Val(audit[h].origin).readVersion < r.version
         /\ r.id \notin ExperienceIds(Val(calls[h].result))
         /\ \E i \in 1..Len(ledger) : ledger[i].id = r.id

\* A cached result exists, was stored less than 30 seconds ago and has not
\* been invalidated since.
StoredAndValid ==
  /\ stored # undefined
  /\ ~invalidated
  /\ DateNow - Val(stored).at < CACHE_TTL_SECONDS

\* The steps of handler h through computePatterns.
CacheSteps(h) ==
  /\ (calls[h].pc = "idle" /\ calls'[h].pc \in {"done", "loading"}) =>
       IF StoredAndValid
       THEN /\ calls'[h].pc = "done"
            /\ calls'[h].hit
            /\ calls'[h].result = Val(stored).result
            /\ UNCHANGED <<cachedTaste, cacheTimestamp, stored>>
       ELSE calls'[h].pc = "loading"
  /\ (calls[h].pc = "written" /\ calls'[h].pc # "written") =>
       calls'[h].pc = "loading"
  /\ (calls[h].pc = "loading" /\ calls'[h].pc # "loading") =>
       /\ calls'[h].pc = "computing"
       /\ calls'[h].snapshot = ledger
  /\ (calls[h].pc = "computing" /\ calls'[h].pc # "computing") =>
       /\ calls'[h].pc = "done"
       /\ ~calls'[h].hit
       /\ ExperienceIds(Val(calls'[h].result))
            = {calls[h].snapshot[i].id : i \in 1..Len(calls[h].snapshot)}
       /\ Len(Val(calls'[h].result).experiences) = Len(calls[h].snapshot)
       /\ AsContract(Val(calls'[h].result), DEFAULT_DECAY_HALF_LIFE_DAYS)
       /\ cachedTaste' = calls'[h].result
       /\ cacheTimestamp' = DateNow

\* C8: computePatterns returns the stored result without reading the
\* ledger exactly when a cached result exists, was stored less than 30
\* seconds ago and has not been invalidated since; in every other case it
\* reads the whole ledger, computes the patterns from it and replaces the
\* cached result and its timestamp.
C8_CacheHitExactly == [][\A h \in Handlers : CacheSteps(h)]_vars

\* One call was served the result stored one tick earlier while another,
\* started after a record call invalidated the cache, recomputes.
C8_Witness ==
  \E h, g \in Handlers :
    /\ Done(h)
    /\ calls[h].hit
    /\ audit[h].age = TICK_SECONDS
    /\ calls[g].pc = "computing"
    /\ audit[g].see # {}

\* Every handler has sent its response.
AllReturned == \A h \in Handlers : calls[h].pc = "idle"

LedgerIds == {ledger[i].id : i \in 1..Len(ledger)}

\* C29: once all calls have returned, the ledger holds every decision a
\* recordDecision call has returned.
C29_NoDecisionLost ==
  AllReturned => \A r \in returned : r.id \in LedgerIds

\* The decision of the last write of the file is in the ledger.
C29_LastWriteKept ==
  \A r \in returned : r.version = version => r.id \in LedgerIds

\* Two record calls have returned and all handlers are done; the ledger
\* holds one decision.
C29_LostWitness ==
  /\ AllReturned
  /\ Cardinality(returned) = 2
  /\ Len(ledger) = 1

(***************************************************************************)
(* One decision write among interleaved computePatterns calls, with the    *)
(* time of the write kept and a clock that runs past the TTL window.       *)
(***************************************************************************)
\* Steps of the clock around one write.
MaxWaits == 3

InitStale == InitCache

\* The one record_decision call.
RD_LoadOnce(h) == nextId = 1 /\ RD_Load(h)

\* saveProjectDecisions writes the whole file; the time of the write is
\* kept.
RD_WriteAt(h) ==
  /\ calls[h].pc = "writing"
  /\ ledger' = Append(calls[h].snapshot, Val(calls[h].decision))
  /\ version' = version + 1
  /\ writtenAt' = Append(writtenAt, DateNow)
  /\ calls' = [calls EXCEPT ![h].pc = "written"]
  /\ audit' = [audit EXCEPT ![h].wrote = version']
  /\ UNCHANGED <<nextId, now, clock, cachedTaste, cacheTimestamp, taste, hit>>
  /\ UNCHANGED <<returned, stored, invalidated>>
  /\ UNCHANGED othersTaste

\* Time passes.
Wait ==
  /\ clock < MaxWaits * TICK_SECONDS
  /\ clock' = clock + TICK_SECONDS
  /\ UNCHANGED <<ledger, nextId, now, cachedTaste, cacheTimestamp, taste, hit>>
  /\ UNCHANGED varsCalls
  /\ UNCHANGED othersTaste

NextStale ==
  \/ \E h \in Handlers : CP_Start(h)
  \/ \E h \in Handlers : CP_Load(h)
  \/ \E h \in Handlers : CP_Store(h)
  \/ \E h \in Handlers : Finish(h)
  \/ \E h \in Handlers : RD_LoadOnce(h)
  \/ \E h \in Handlers : RD_WriteAt(h)
  \/ \E h \in Handlers : RD_Return(h)
  \/ Wait

SpecStale == InitStale /\ [][NextStale]_vars

\* The taste handler h was served, the snapshot it was computed from, the
\* version of the decisions file that snapshot was read at and the time it
\* was served.
Served(h) == Val(calls[h].result)

ServedSnapshot(h) ==
  IF calls[h].hit THEN Val(audit[h].origin).snapshot ELSE calls[h].snapshot

ServedVersion(h) ==
  IF calls[h].hit THEN Val(audit[h].origin).readVersion ELSE audit[h].readVersion

\* The taste is the whole result of one computation over the snapshot.
OneComputation(t, snapshot) ==
  /\ Len(t.experiences) = Len(snapshot)
  /\ ExperienceIds(t) = {snapshot[i].id : i \in 1..Len(snapshot)}
  /\ AsContract(t, DEFAULT_DECAY_HALF_LIFE_DAYS)

\* Every taste served, and the one in the cache, is one computation.
NeverMixed ==
  /\ \A h \in Handlers :
       Done(h) =>
         /\ OneComputation(Served(h), ServedSnapshot(h))
         /\ calls[h].hit => Served(h) = Val(Val(audit[h].origin).result)
  /\ cachedTaste # undefined =>
       /\ stored # undefined
       /\ cachedTaste = Val(stored).result
       /\ cacheTimestamp = Val(stored).at
       /\ OneComputation(Val(cachedTaste), Val(stored).snapshot)

MaxBatches == 2

NoFields == <<>>

JObject(fields) == [kind |-> "object", fields |-> fields, items |-> <<>>]

JArray(items) == [kind |-> "array", fields |-> NoFields, items |-> items]

JString(text) == [kind |-> "string", fields |-> NoFields, items |-> <<text>>]

JTrue == [kind |-> "boolean", fields |-> NoFields, items |-> <<>>]

\* typeof v === 'object' (v is never null here)
typeofObject(v) == v.kind \in {"object", "array"}

\* Array.isArray
isArray(v) == v.kind = "array"

\* v[key]
Prop(v, key) == IF key \in DOMAIN v.fields THEN Some(v.fields[key]) ELSE undefined

\* v[key] = x
WithProp(v, key, x) ==
  [v EXCEPT !.fields = [k \in (DOMAIN v.fields) \cup {key} |->
                          IF k = key THEN x ELSE v.fields[k]]]

\* delete v[key]
WithoutProp(v, key) ==
  [v EXCEPT !.fields = [k \in (DOMAIN v.fields) \ {key} |-> v.fields[k]]]

\* JSON.parse(JSON.stringify(v)): the fields of an array are not written.
RECURSIVE stringify(_)
stringify(v) ==
  IF v.kind = "object"
  THEN [v EXCEPT !.fields = [k \in DOMAIN v.fields |-> stringify(v.fields[k])]]
  ELSE [v EXCEPT !.fields = NoFields]

RECURSIVE getNestedValue(_, _)
getNestedValue(current, path) ==
  IF path = <<>> THEN current
  ELSE IF current = undefined THEN undefined
  ELSE IF ~typeofObject(Val(current)) THEN undefined
  ELSE getNestedValue(Prop(Val(current), Head(path)), Tail(path))

RECURSIVE setNestedValue(_, _, _)
setNestedValue(current, path, value) ==
  IF Len(path) = 1 THEN WithProp(current, path[1], value)
  ELSE LET part == Head(path)
           existing == Prop(current, part)
           next == IF existing = undefined \/ ~typeofObject(Val(existing))
                   THEN JObject(NoFields)
                   ELSE Val(existing)
       IN WithProp(current, part, setNestedValue(next, Tail(path), value))

\* The object after the deletion, and whether a key was deleted.
RECURSIVE deleteNestedValue(_, _)
deleteNestedValue(current, path) ==
  IF Len(path) = 1
  THEN IF path[1] \in DOMAIN current.fields
       THEN [obj |-> WithoutProp(current, path[1]), deleted |-> TRUE]
       ELSE [obj |-> current, deleted |-> FALSE]
  ELSE LET part == Head(path)
           existing == Prop(current, part)
       IN IF existing = undefined \/ ~typeofObject(Val(existing))
          THEN [obj |-> current, deleted |-> FALSE]
          ELSE LET below == deleteNestedValue(Val(existing), Tail(path))
               IN [obj |-> WithProp(current, part, below.obj),
                   deleted |-> below.deleted]

\* Array.isArray(value) ? value : [value]
toArray(value) == value.items

AppliedOp(op, path, value, previousValue) ==
  [op |-> op, path |-> path, value |-> value, previousValue |-> previousValue]

Warning(text, path) == [text |-> text, path |-> path]

\* One entry of operations.set, operations.append and operations.remove on
\* the profile object and the two audit lists.
applySet(s, entry) ==
  [obj |-> setNestedValue(s.obj, entry.path, entry.value),
   appliedOps |-> Append(s.appliedOps,
                         AppliedOp("set", entry.path, entry.value,
                                   getNestedValue(Some(s.obj), entry.path))),
   warnings |-> s.warnings]

applyAppend(s, entry) ==
  LET current == getNestedValue(Some(s.obj), entry.path)
  IN IF current = undefined
     THEN [obj |-> setNestedValue(s.obj, entry.path, JArray(toArray(entry.value))),
           appliedOps |-> Append(s.appliedOps,
                                 AppliedOp("append", entry.path, entry.value, undefined)),
           warnings |-> Append(s.warnings, Warning("Initialized as new array", entry.path))]
     ELSE IF isArray(Val(current))
     THEN [obj |-> setNestedValue(s.obj, entry.path,
                                  JArray(Val(current).items \o toArray(entry.value))),
           appliedOps |-> Append(s.appliedOps,
                                 AppliedOp("append", entry.path, entry.value, current)),
           warnings |-> s.warnings]
     ELSE [s EXCEPT !.warnings = Append(@, Warning("Cannot append to non-array", entry.path))]

applyRemove(s, entry) ==
  LET current == getNestedValue(Some(s.obj), entry.path)
  IN IF entry.value = JTrue
     THEN LET deletion == deleteNestedValue(s.obj, entry.path)
          IN IF deletion.deleted
             THEN [obj |-> deletion.obj,
                   appliedOps |-> Append(s.appliedOps,
                                         AppliedOp("remove", entry.path, JTrue, current)),
                   warnings |-> s.warnings]
             ELSE [s EXCEPT !.warnings = Append(@, Warning("not found for removal", entry.path))]
     ELSE IF current # undefined /\ isArray(Val(current))
     THEN LET toRemove == toArray(entry.value)
              newArray == SelectSeq(Val(current).items,
                                    LAMBDA item : ~arrayIncludes(toRemove, item))
          IN [obj |-> setNestedValue(s.obj, entry.path, JArray(newArray)),
              appliedOps |-> Append(s.appliedOps,
                                    AppliedOp("remove", entry.path, entry.value, current)),
              warnings |-> s.warnings]
     ELSE [s EXCEPT !.warnings = Append(@, Warning("Cannot remove from non-array", entry.path))]

RECURSIVE applySets(_, _)
applySets(s, entries) ==
  IF entries = <<>> THEN s ELSE applySets(applySet(s, Head(entries)), Tail(entries))

RECURSIVE applyAppends(_, _)
applyAppends(s, entries) ==
  IF entries = <<>> THEN s ELSE applyAppends(applyAppend(s, Head(entries)), Tail(entries))

RECURSIVE applyRemoves(_, _)
applyRemoves(s, entries) ==
  IF entries = <<>> THEN s ELSE applyRemoves(applyRemove(s, Head(entries)), Tail(entries))

\* new Date().toISOString() at the n-th call.
toISOString(n) == JString(ToString(n))

\* The profile updateProjectProfile creates when there is none.
createdProfile(nowIso) ==
  JObject([k \in {"schemaVersion", "createdAt", "updatedAt", "project",
                  "shareToGlobalTaste"} |->
             CASE k = "schemaVersion" -> JString("1.0.0")
               [] k = "createdAt" -> nowIso
               [] k = "updatedAt" -> nowIso
               [] k = "project" -> JObject([n \in {"name"} |-> JString("app")])
               [] k = "shareToGlobalTaste" -> JTrue])

\* updateProjectProfile on the document `file`: the value it returns and the
\* document saveLocalProfile writes.
updateProjectProfile(file, ops, nowIso) ==
  LET profile == IF file = undefined THEN createdProfile(nowIso) ELSE Val(file)
      start == [obj |-> profile, appliedOps |-> <<>>, warnings |-> <<>>]
      afterSet == applySets(start, ops.set)
      afterAppend == applyAppends(afterSet, ops.append)
      afterRemove == applyRemoves(afterAppend, ops.remove)
      saved == WithProp(afterRemove.obj, "updatedAt", nowIso)
  IN [result |-> [success |-> TRUE, updatedProfile |-> saved,
                  appliedOps |-> afterRemove.appliedOps,
                  warnings |-> afterRemove.warnings],
      written |-> stringify(saved)]

(***************************************************************************)
(* The update_profile tool: every call of updateProjectProfile applies one *)
(* batch of operations to the profile document and saves it.               *)
(***************************************************************************)
compliancePath == <<"constraints", "compliance">>

\* Profile documents a project may start with.
ProfileDocuments ==
  { JObject([k \in {"project"} |-> JObject([n \in {"name"} |-> JString("app")])]),
    JObject([k \in {"constraints"} |->
               JObject([c \in {"compliance"} |-> JArray(<<"SOC2">>)])]) }

UpdatePaths == { <<"constraints">>, compliancePath }

SetEntries == [path : UpdatePaths, value : {JArray(<<"HIPAA">>)}]

AppendEntries == [path : UpdatePaths, value : {JString("GDPR")}]

RemoveEntries == [path : UpdatePaths, value : {JTrue, JString("SOC2")}]

\* An operations object with at most one entry per kind.
AtMostOne(entries) == {<<>>} \cup {<<e>> : e \in entries}

InitUpdate ==
  /\ profileFile \in {undefined} \cup {Some(d) : d \in ProfileDocuments}
  /\ operations = undefined
  /\ updated = undefined
  /\ batches = 0
  /\ IdleScore
  /\ IdleMerge
  /\ IdleTaste
  /\ IdleCalls
  /\ IdleRecommend
  /\ IdleSharing
  /\ IdleFiles

UpdateProjectProfile ==
  /\ batches < MaxBatches
  /\ \E set \in AtMostOne(SetEntries), append \in AtMostOne(AppendEntries),
        remove \in AtMostOne(RemoveEntries) :
       LET ops == [set |-> set, append |-> append, remove |-> remove]
           call == updateProjectProfile(profileFile, ops, toISOString(batches + 1))
       IN /\ operations' = Some([set |-> set, append |-> append, remove |-> remove,
                                  found |-> profileFile])
          /\ updated' = Some(call.result)
          /\ profileFile' = Some(call.written)
  /\ batches' = batches + 1
  /\ UNCHANGED othersUpdate

NextUpdate == UpdateProjectProfile

SpecUpdate == InitUpdate /\ [][NextUpdate]_vars

(***************************************************************************)
(* Claims about the surgical updates.                                      *)
(***************************************************************************)
\* The last batch, the document it started from and the document after each
\* of its three phases.
Batch == Val(operations)

Outcome == Val(updated)

BatchStart ==
  [obj |-> IF Batch.found = undefined
           THEN createdProfile(toISOString(batches))
           ELSE Val(Batch.found),
   appliedOps |-> <<>>, warnings |-> <<>>]

AfterSet == applySets(BatchStart, Batch.set)

AfterAppend == applyAppends(AfterSet, Batch.append)

\* The value at a path of a document.
At(doc, path) == getNestedValue(Some(doc), path)

\* A document without the time of its last save.
Content(doc) == WithoutProp(doc, "updatedAt")

\* The batch sets a path and removes the same path with `true`.
SetThenRemove ==
  /\ operations # undefined
  /\ Batch.found # undefined
  /\ Len(Batch.set) = 1
  /\ Batch.append = <<>>
  /\ Len(Batch.remove) = 1
  /\ Batch.remove[1] = [path |-> Batch.set[1].path, value |-> JTrue]

\* C11: applying set(p, v) and then remove(p, true) to a document returns
\* the document to its state before the set, at every path.
C11_RoundTrip ==
  SetThenRemove => Content(Val(profileFile)) = Content(Val(Batch.found))

\* The round trip from a document where the path is absent and its parent
\* is an object: it does return the document.
C11_AbsentLeaf ==
  /\ SetThenRemove
  /\ At(Val(Batch.found), Batch.set[1].path) = undefined
  /\ Len(Batch.set[1].path) = 2
  /\ At(Val(Batch.found), <<Batch.set[1].path[1]>>) # undefined
  /\ Val(At(Val(Batch.found), <<Batch.set[1].path[1]>>)).kind = "object"
  => Content(Val(profileFile)) = Content(Val(Batch.found))

HasApplied(op, path) ==
  \E i \in 1..Len(Outcome.appliedOps) :
    Outcome.appliedOps[i].op = op /\ Outcome.appliedOps[i].path = path

HasWarning(path) ==
  \E i \in 1..Len(Outcome.warnings) : Outcome.warnings[i].path = path

\* Every requested operation has an audit entry or a warning.
Reported ==
  /\ \A i \in 1..Len(Batch.set) : HasApplied("set", Batch.set[i].path)
  /\ \A i \in 1..Len(Batch.append) :
       HasApplied("append", Batch.append[i].path) \/ HasWarning(Batch.append[i].path)
  /\ \A i \in 1..Len(Batch.remove) :
       HasApplied("remove", Batch.remove[i].path) \/ HasWarning(Batch.remove[i].path)

\* An append to a value that is no array, a removal by value from a path
\* that holds no array, and a removal of a missing path.
AppendRefused ==
  /\ Len(Batch.append) = 1
  /\ At(AfterSet.obj, Batch.append[1].path) # undefined
  /\ ~isArray(Val(At(AfterSet.obj, Batch.append[1].path)))

RemoveRefused ==
  /\ Len(Batch.remove) = 1
  /\ LET current == At(AfterAppend.obj, Batch.remove[1].path)
     IN IF Batch.remove[1].value = JTrue
        THEN current = undefined
        ELSE current = undefined \/ ~isArray(Val(current))

\* A refused operation gives a warning and no audit entry, and the value at
\* its path stays as it was.
RefusedWithWarning ==
  /\ AppendRefused =>
       /\ HasWarning(Batch.append[1].path)
       /\ ~HasApplied("append", Batch.append[1].path)
       /\ At(AfterAppend.obj, Batch.append[1].path) = At(AfterSet.obj, Batch.append[1].path)
  /\ RemoveRefused =>
       /\ HasWarning(Batch.remove[1].path)
       /\ ~HasApplied("remove", Batch.remove[1].path)
       /\ At(Outcome.updatedProfile, Batch.remove[1].path)
            = At(AfterAppend.obj, Batch.remove[1].path)

\* The only operation of the batch that was applied is a set.
OnlySetApplied ==
  /\ Len(Batch.set) = 1
  /\ Len(Outcome.appliedOps) = 1

\* C12: an operation that cannot be applied gives a warning and leaves its
\* path unchanged, every other operation of the batch is applied and
\* persisted, and every operation has an audit entry or a warning.
C12_NoSilentDrop ==
  operations # undefined =>
    /\ Outcome.success
    /\ Reported
    /\ RefusedWithWarning
    /\ OnlySetApplied =>
         At(Val(profileFile), Batch.set[1].path) = Some(Batch.set[1].value)

\* The same without the persistence of a set below an array.
C12_Audit ==
  operations # undefined =>
    /\ Outcome.success
    /\ Reported
    /\ RefusedWithWarning
    /\ OnlySetApplied /\ At(Outcome.updatedProfile, Batch.set[1].path)
                           = At(stringify(Outcome.updatedProfile), Batch.set[1].path)
         => At(Val(profileFile), Batch.set[1].path) = Some(Batch.set[1].value)

(***************************************************************************)
(* Category normalisation (src/categories.ts and normalizeCategory of the  *)
(* server).                                                                *)
(***************************************************************************)
\* The alias table, entry by entry: <<alias, canonical category>>.
categoryAliases ==
  <<
    <<<<"t","r","a","n","s","a","c","t","i","o","n","a","l"," ","e","m","a","i","l">>,
      <<"e","m","a","i","l">>>>,
    <<<<"t","r","a","n","s","a","c","t","i","o","n","a","l","-","e","m","a","i","l">>,
      <<"e","m","a","i","l">>>>,
    <<<<"m","a","i","l">>,
      <<"e","m","a","i","l">>>>,
    <<<<"s","m","t","p">>,
      <<"e","m","a","i","l">>>>,
    <<<<"p","a","y","m","e","n","t">>,
      <<"p","a","y","m","e","n","t","s">>>>,
    <<<<"p","a","y","m","e","n","t"," ","p","r","o","c","e","s","s","i","n","g">>,
      <<"p","a","y","m","e","n","t","s">>>>,
    <<<<"b","i","l","l","i","n","g">>,
      <<"p","a","y","m","e","n","t","s">>>>,
    <<<<"s","u","b","s","c","r","i","p","t","i","o","n","s">>,
      <<"p","a","y","m","e","n","t","s">>>>,
    <<<<"a","u","t","h","e","n","t","i","c","a","t","i","o","n">>,
      <<"a","u","t","h">>>>,
    <<<<"l","o","g","i","n">>,
      <<"a","u","t","h">>>>,
    <<<<"u","s","e","r"," ","m","a","n","a","g","e","m","e","n","t">>,
      <<"a","u","t","h">>>>,
    <<<<"i","d","e","n","t","i","t","y">>,
      <<"a","u","t","h">>>>,
    <<<<"t","e","x","t","i","n","g">>,
      <<"s","m","s">>>>,
    <<<<"m","e","s","s","a","g","i","n","g">>,
      <<"s","m","s">>>>,
    <<<<"f","i","l","e"," ","s","t","o","r","a","g","e">>,
      <<"s","t","o","r","a","g","e">>>>,
    <<<<"u","p","l","o","a","d","s">>,
      <<"s","t","o","r","a","g","e">>>>,
    <<<<"b","l","o","b","s">>,
      <<"s","t","o","r","a","g","e">>>>,
    <<<<"s","3">>,
      <<"s","t","o","r","a","g","e">>>>,
    <<<<"p","o","s","t","g","r","e","s">>,
      <<"d","a","t","a","b","a","s","e">>>>,
    <<<<"m","y","s","q","l">>,
      <<"d","a","t","a","b","a","s","e">>>>,
    <<<<"d","b">>,
      <<"d","a","t","a","b","a","s","e">>>>,
    <<<<"s","q","l">>,
      <<"d","a","t","a","b","a","s","e">>>>,
    <<<<"e","r","r","o","r"," ","t","r","a","c","k","i","n","g">>,
      <<"m","o","n","i","t","o","r","i","n","g">>>>,
    <<<<"o","b","s","e","r","v","a","b","i","l","i","t","y">>,
      <<"m","o","n","i","t","o","r","i","n","g">>>>,
    <<<<"l","o","g","g","i","n","g">>,
      <<"m","o","n","i","t","o","r","i","n","g">>>>,
    <<<<"a","p","m">>,
      <<"m","o","n","i","t","o","r","i","n","g">>>>,
    <<<<"a","u","d","i","t"," ","l","o","g">>,
      <<"m","o","n","i","t","o","r","i","n","g">>>>,
    <<<<"a","u","d","i","t"," ","t","r","a","i","l">>,
      <<"m","o","n","i","t","o","r","i","n","g">>>>,
    <<<<"c","o","m","p","l","i","a","n","c","e">>,
      <<"m","o","n","i","t","o","r","i","n","g">>>>,
    <<<<"g","o","v","e","r","n","a","n","c","e">>,
      <<"m","o","n","i","t","o","r","i","n","g">>>>,
    <<<<"f","u","l","l","-","t","e","x","t"," ","s","e","a","r","c","h">>,
      <<"s","e","a","r","c","h">>>>,
    <<<<"p","u","s","h"," ","n","o","t","i","f","i","c","a","t","i","o","n","s">>,
      <<"p","u","s","h">>>>,
    <<<<"n","o","t","i","f","i","c","a","t","i","o","n","s">>,
      <<"p","u","s","h">>>>,
    <<<<"l","l","m">>,
      <<"a","i">>>>,
    <<<<"l","a","n","g","u","a","g","e"," ","m","o","d","e","l">>,
      <<"a","i">>>>,
    <<<<"g","p","t">>,
      <<"a","i">>>>,
    <<<<"c","l","a","u","d","e">>,
      <<"a","i">>>>,
    <<<<"a","g","e","n","t"," ","f","r","a","m","e","w","o","r","k">>,
      <<"a","i">>>>,
    <<<<"a","i"," ","a","g","e","n","t","s">>,
      <<"a","i">>>>,
    <<<<"l","a","n","g","c","h","a","i","n">>,
      <<"a","i">>>>,
    <<<<"a","i"," ","w","o","r","k","f","l","o","w">>,
      <<"a","i">>>>,
    <<<<"o","r","c","h","e","s","t","r","a","t","i","o","n">>,
      <<"a","i">>>>,
    <<<<"a","i"," ","m","e","m","o","r","y">>,
      <<"a","i">>>>,
    <<<<"l","o","n","g","-","t","e","r","m"," ","m","e","m","o","r","y">>,
      <<"a","i">>>>,
    <<<<"c","o","n","t","e","x","t"," ","m","a","n","a","g","e","m","e","n","t">>,
      <<"a","i">>>>,
    <<<<"d","o","c","u","m","e","n","t"," ","p","a","r","s","i","n","g">>,
      <<"a","i">>>>,
    <<<<"d","o","c","u","m","e","n","t"," ","e","x","t","r","a","c","t","i","o","n">>,
      <<"a","i">>>>,
    <<<<"c","h","u","n","k","i","n","g">>,
      <<"a","i">>>>,
    <<<<"o","c","r">>,
      <<"a","i">>>>,
    <<<<"p","d","f"," ","p","a","r","s","i","n","g">>,
      <<"a","i">>>>,
    <<<<"s","t","o","c","k"," ","d","a","t","a">>,
      <<"f","i","n","a","n","c","e">>>>,
    <<<<"m","a","r","k","e","t"," ","d","a","t","a">>,
      <<"f","i","n","a","n","c","e">>>>,
    <<<<"s","t","o","c","k"," ","a","p","i">>,
      <<"f","i","n","a","n","c","e">>>>,
    <<<<"s","t","o","c","k","s">>,
      <<"f","i","n","a","n","c","e">>>>,
    <<<<"s","t","o","c","k"," ","m","a","r","k","e","t">>,
      <<"f","i","n","a","n","c","e">>>>,
    <<<<"f","i","n","a","n","c","i","a","l"," ","a","p","i">>,
      <<"f","i","n","a","n","c","e">>>>,
    <<<<"f","i","n","a","n","c","e">>,
      <<"f","i","n","a","n","c","e">>>>,
    <<<<"b","r","o","k","e","r","a","g","e">>,
      <<"f","i","n","a","n","c","e">>>>,
    <<<<"s","t","o","c","k"," ","t","r","a","d","i","n","g">>,
      <<"f","i","n","a","n","c","e">>>>,
    <<<<"t","r","a","d","e"," ","e","x","e","c","u","t","i","o","n">>,
      <<"f","i","n","a","n","c","e">>>>,
    <<<<"o","r","d","e","r"," ","e","x","e","c","u","t","i","o","n">>,
      <<"f","i","n","a","n","c","e">>>>,
    <<<<"b","r","o","k","e","r">>,
      <<"f","i","n","a","n","c","e">>>>,
    <<<<"b","u","y"," ","s","t","o","c","k","s">>,
      <<"f","i","n","a","n","c","e">>>>,
    <<<<"s","e","l","l"," ","s","t","o","c","k","s">>,
      <<"f","i","n","a","n","c","e">>>>,
    <<<<"c","r","y","p","t","o"," ","t","r","a","d","i","n","g">>,
      <<"f","i","n","a","n","c","e">>>>,
    <<<<"g","e","o","c","o","d","i","n","g">>,
      <<"m","a","p","s">>>>,
    <<<<"m","a","p","p","i","n","g">>,
      <<"m","a","p","s">>>>,
    <<<<"g","e","o","l","o","c","a","t","i","o","n">>,
      <<"m","a","p","s">>>>,
    <<<<"b","a","c","k","g","r","o","u","n","d"," ","j","o","b","s">>,
      <<"j","o","b","s">>>>,
    <<<<"j","o","b"," ","q","u","e","u","e">>,
      <<"j","o","b","s">>>>,
    <<<<"t","a","s","k"," ","q","u","e","u","e">>,
      <<"j","o","b","s">>>>,
    <<<<"w","o","r","k","e","r","s">>,
      <<"j","o","b","s">>>>,
    <<<<"c","r","o","n">>,
      <<"j","o","b","s">>>>,
    <<<<"v","e","c","t","o","r"," ","d","a","t","a","b","a","s","e">>,
      <<"v","e","c","t","o","r","-","d","b">>>>,
    <<<<"v","e","c","t","o","r"," ","s","t","o","r","e">>,
      <<"v","e","c","t","o","r","-","d","b">>>>,
    <<<<"e","m","b","e","d","d","i","n","g","s">>,
      <<"v","e","c","t","o","r","-","d","b">>>>,
    <<<<"p","i","n","e","c","o","n","e">>,
      <<"v","e","c","t","o","r","-","d","b">>>>,
    <<<<"r","a","g">>,
      <<"v","e","c","t","o","r","-","d","b">>>>,
    <<<<"s","e","m","a","n","t","i","c"," ","s","e","a","r","c","h">>,
      <<"v","e","c","t","o","r","-","d","b">>>>,
    <<<<"t","e","x","t"," ","t","o"," ","s","p","e","e","c","h">>,
      <<"a","i","-","a","u","d","i","o">>>>,
    <<<<"t","t","s">>,
      <<"a","i","-","a","u","d","i","o">>>>,
    <<<<"s","p","e","e","c","h"," ","t","o"," ","t","e","x","t">>,
      <<"a","i","-","a","u","d","i","o">>>>,
    <<<<"s","t","t">>,
      <<"a","i","-","a","u","d","i","o">>>>,
    <<<<"a","u","d","i","o"," ","g","e","n","e","r","a","t","i","o","n">>,
      <<"a","i","-","a","u","d","i","o">>>>,
    <<<<"v","o","i","c","e"," ","a","i">>,
      <<"a","i","-","a","u","d","i","o">>>>,
    <<<<"v","o","i","c","e"," ","s","y","n","t","h","e","s","i","s">>,
      <<"a","i","-","a","u","d","i","o">>>>,
    <<<<"t","r","a","n","s","c","r","i","p","t","i","o","n">>,
      <<"a","i","-","a","u","d","i","o">>>>,
    <<<<"m","u","s","i","c"," ","g","e","n","e","r","a","t","i","o","n">>,
      <<"a","i","-","a","u","d","i","o">>>>,
    <<<<"v","i","d","e","o"," ","g","e","n","e","r","a","t","i","o","n">>,
      <<"a","i","-","v","i","d","e","o">>>>,
    <<<<"t","e","x","t"," ","t","o"," ","v","i","d","e","o">>,
      <<"a","i","-","v","i","d","e","o">>>>,
    <<<<"a","i"," ","v","i","d","e","o">>,
      <<"a","i","-","v","i","d","e","o">>>>,
    <<<<"v","i","d","e","o"," ","a","i">>,
      <<"a","i","-","v","i","d","e","o">>>>,
    <<<<"i","m","a","g","e"," ","g","e","n","e","r","a","t","i","o","n">>,
      <<"a","i","-","i","m","a","g","e">>>>,
    <<<<"t","e","x","t"," ","t","o"," ","i","m","a","g","e">>,
      <<"a","i","-","i","m","a","g","e">>>>,
    <<<<"a","i"," ","i","m","a","g","e">>,
      <<"a","i","-","i","m","a","g","e">>>>,
    <<<<"i","m","a","g","e"," ","a","i">>,
      <<"a","i","-","i","m","a","g","e">>>>,
    <<<<"d","i","f","f","u","s","i","o","n">>,
      <<"a","i","-","i","m","a","g","e">>>>,
    <<<<"s","t","a","b","l","e"," ","d","i","f","f","u","s","i","o","n">>,
      <<"a","i","-","i","m","a","g","e">>>>,
    <<<<"d","a","l","l","_","e">>,
      <<"a","i","-","i","m","a","g","e">>>>,
    <<<<"m","i","d","j","o","u","r","n","e","y">>,
      <<"a","i","-","i","m","a","g","e">>>>,
    <<<<"f","e","a","t","u","r","e"," ","f","l","a","g">>,
      <<"f","e","a","t","u","r","e","-","f","l","a","g","s">>>>,
    <<<<"f","e","a","t","u","r","e"," ","f","l","a","g","s">>,
      <<"f","e","a","t","u","r","e","-","f","l","a","g","s">>>>,
    <<<<"f","e","a","t","u","r","e"," ","t","o","g","g","l","e">>,
      <<"f","e","a","t","u","r","e","-","f","l","a","g","s">>>>,
    <<<<"a","/","b"," ","t","e","s","t","i","n","g">>,
      <<"f","e","a","t","u","r","e","-","f","l","a","g","s">>>>,
    <<<<"m","e","s","s","a","g","e"," ","q","u","e","u","e">>,
      <<"m","e","s","s","a","g","e","-","q","u","e","u","e">>>>,
    <<<<"m","e","s","s","a","g","e"," ","b","r","o","k","e","r">>,
      <<"m","e","s","s","a","g","e","-","q","u","e","u","e">>>>,
    <<<<"k","a","f","k","a">>,
      <<"m","e","s","s","a","g","e","-","q","u","e","u","e">>>>,
    <<<<"r","a","b","b","i","t","m","q">>,
      <<"m","e","s","s","a","g","e","-","q","u","e","u","e">>>>,
    <<<<"p","u","b","s","u","b">>,
      <<"m","e","s","s","a","g","e","-","q","u","e","u","e">>>>,
    <<<<"e","v","e","n","t"," ","s","t","r","e","a","m","i","n","g">>,
      <<"m","e","s","s","a","g","e","-","q","u","e","u","e">>>>,
    <<<<"c","a","c","h","e">>,
      <<"c","a","c","h","e">>>>,
    <<<<"r","e","d","i","s">>,
      <<"c","a","c","h","e">>>>,
    <<<<"m","e","m","c","a","c","h","e","d">>,
      <<"c","a","c","h","e">>>>,
    <<<<"k","e","y"," ","v","a","l","u","e">>,
      <<"c","a","c","h","e">>>>,
    <<<<"k","v">>,
      <<"c","a","c","h","e">>>>,
    <<<<"i","n"," ","m","e","m","o","r","y">>,
      <<"c","a","c","h","e">>>>,
    <<<<"r","e","a","l","t","i","m","e">>,
      <<"r","e","a","l","t","i","m","e">>>>,
    <<<<"w","e","b","s","o","c","k","e","t">>,
      <<"r","e","a","l","t","i","m","e">>>>,
    <<<<"w","e","b","s","o","c","k","e","t","s">>,
      <<"r","e","a","l","t","i","m","e">>>>,
    <<<<"s","e","r","v","e","r"," ","s","e","n","t"," ","e","v","e","n","t","s">>,
      <<"r","e","a","l","t","i","m","e">>>>,
    <<<<"s","s","e">>,
      <<"r","e","a","l","t","i","m","e">>>>,
    <<<<"l","i","v","e"," ","u","p","d","a","t","e","s">>,
      <<"r","e","a","l","t","i","m","e">>>>,
    <<<<"p","r","e","s","e","n","c","e">>,
      <<"r","e","a","l","t","i","m","e">>>>,
    <<<<"c","h","a","t">>,
      <<"c","h","a","t">>>>,
    <<<<"l","i","v","e"," ","c","h","a","t">>,
      <<"c","h","a","t">>>>,
    <<<<"c","h","a","t"," ","a","p","i">>,
      <<"c","h","a","t">>>>,
    <<<<"i","n","-","a","p","p"," ","m","e","s","s","a","g","i","n","g">>,
      <<"c","h","a","t">>>>,
    <<<<"h","o","s","t","i","n","g">>,
      <<"h","o","s","t","i","n","g">>>>,
    <<<<"d","e","p","l","o","y","m","e","n","t">>,
      <<"h","o","s","t","i","n","g">>>>,
    <<<<"p","a","a","s">>,
      <<"h","o","s","t","i","n","g">>>>,
    <<<<"c","l","o","u","d"," ","h","o","s","t","i","n","g">>,
      <<"h","o","s","t","i","n","g">>>>,
    <<<<"c","d","n">>,
      <<"c","d","n">>>>,
    <<<<"c","o","n","t","e","n","t"," ","d","e","l","i","v","e","r","y">>,
      <<"c","d","n">>>>,
    <<<<"e","d","g","e"," ","n","e","t","w","o","r","k">>,
      <<"c","d","n">>>>,
    <<<<"c","m","s">>,
      <<"c","m","s">>>>,
    <<<<"c","o","n","t","e","n","t"," ","m","a","n","a","g","e","m","e","n","t">>,
      <<"c","m","s">>>>,
    <<<<"h","e","a","d","l","e","s","s"," ","c","m","s">>,
      <<"c","m","s">>>>,
    <<<<"m","e","d","i","a">>,
      <<"m","e","d","i","a">>>>,
    <<<<"m","e","d","i","a"," ","p","r","o","c","e","s","s","i","n","g">>,
      <<"m","e","d","i","a">>>>,
    <<<<"i","m","a","g","e"," ","p","r","o","c","e","s","s","i","n","g">>,
      <<"m","e","d","i","a">>>>,
    <<<<"v","i","d","e","o"," ","s","t","r","e","a","m","i","n","g">>,
      <<"m","e","d","i","a">>>>,
    <<<<"v","i","d","e","o"," ","h","o","s","t","i","n","g">>,
      <<"m","e","d","i","a">>>>,
    <<<<"l","i","v","e"," ","s","t","r","e","a","m","i","n","g">>,
      <<"m","e","d","i","a">>>>,
    <<<<"w","e","b"," ","s","e","a","r","c","h">>,
      <<"w","e","b","-","s","e","a","r","c","h">>>>,
    <<<<"w","e","b"," ","r","e","t","r","i","e","v","a","l">>,
      <<"w","e","b","-","s","e","a","r","c","h">>>>,
    <<<<"s","e","r","p">>,
      <<"w","e","b","-","s","e","a","r","c","h">>>>,
    <<<<"w","e","b"," ","s","c","r","a","p","i","n","g"," ","a","p","i">>,
      <<"w","e","b","-","s","e","a","r","c","h">>>> >>

\* categoryAliases[key]: the value of the entry with that key, if any.
aliasOf(key) ==
  IF \E i \in 1..Len(categoryAliases) : categoryAliases[i][1] = key
  THEN Some(categoryAliases[CHOOSE i \in 1..Len(categoryAliases) :
                              categoryAliases[i][1] = key][2])
  ELSE undefined

space == " "

\* String.prototype.trim
RECURSIVE trimStart(_)
trimStart(s) == IF s # <<>> /\ Head(s) = space THEN trimStart(Tail(s)) ELSE s

RECURSIVE trimEnd(_)
trimEnd(s) ==
  IF s # <<>> /\ s[Len(s)] = space THEN trimEnd(SubSeq(s, 1, Len(s) - 1)) ELSE s

trim(s) == trimEnd(trimStart(s))

\* Forces a sequence given as a function into a tuple.
AsTuple(s) == SubSeq(s, 1, Len(s))

\* Mutant of normalizeCategory: the category is looked up as written.
normalizeCategory_AsWritten(category) == OrElse(aliasOf(category), category)

normalizeCategory(category) ==
  LET lower == trim(AsTuple(toLowerCase(category)))
  IN OrElse(aliasOf(lower), lower)

\* The categories requested: every alias and every canonical category of
\* the table, and names as a caller may write them.
Email == <<"E","m","a","i","l">>
paddedMail == <<" ","M","a","i","l"," ">>
crm == <<"c","r","m">>
CRM == <<"C","R","M">>

CategoryInputs ==
  {categoryAliases[i][1] : i \in 1..Len(categoryAliases)}
    \cup {categoryAliases[i][2] : i \in 1..Len(categoryAliases)}
    \cup {Email, paddedMail, crm, CRM, <<" ">> \o crm, <<>>}

InitNormalize ==
  /\ request \in {Some(c) : c \in CategoryInputs}
  /\ normalized = undefined
  /\ catalog = <<>>
  /\ localFile = undefined
  /\ recommendation = undefined
  /\ IdleUpdate
  /\ IdleScore
  /\ IdleMerge
  /\ IdleTaste
  /\ IdleCalls
  /\ IdleSharing
  /\ IdleFiles

\* What a step on the requested category leaves alone.
othersNormalize ==
  <<varsScore, varsMerge, varsTaste, varsCalls, varsUpdate, varsSharing, varsFiles,
    catalog, localFile, recommendation>>

\* A handler normalises the category it was given.
NormalizeCategory ==
  /\ normalized = undefined
  /\ normalized' = Some(normalizeCategory(Val(request)))
  /\ UNCHANGED <<request, othersNormalize>>

\* The caller passes the normalised category to the next tool.
PassOn ==
  /\ normalized # undefined
  /\ request # normalized
  /\ request' = normalized
  /\ normalized' = undefined
  /\ UNCHANGED othersNormalize

NextNormalize == NormalizeCategory \/ PassOn

SpecNormalize == InitNormalize /\ [][NextNormalize]_vars

(***************************************************************************)
(* Claims about category normalisation.                                    *)
(***************************************************************************)
Aliases == {categoryAliases[i][1] : i \in 1..Len(categoryAliases)}

Canonical(alias) ==
  categoryAliases[CHOOSE i \in 1..Len(categoryAliases) : categoryAliases[i][1] = alias][2]

\* No canonical category is an alias of a different category.
CanonicalIsFixed ==
  \A i \in 1..Len(categoryAliases) :
    categoryAliases[i][2] \in Aliases
      => Canonical(categoryAliases[i][2]) = categoryAliases[i][2]

\* Normalising the result again returns it.
Idempotent == normalizeCategory(Val(normalized)) = Val(normalized)

loadLocalProfile_Unchecked(file) ==
  IF file = undefined THEN undefined ELSE Some(Val(file).data)

\* loadLocalProfile: null when the file is missing or JSON.parse throws.
loadLocalProfile(file) ==
  IF file = undefined THEN undefined
  ELSE IF ~Val(file).parses THEN undefined
  ELSE Some(Val(file).data)

\* rowToProvider: a row of the providers table carries no pricing, no free
\* tier flag, no scale and no known issues.
rowToProvider(row) ==
  [name |-> row.name, compliance |-> row.compliance, bestFor |-> row.bestFor,
   scale |-> undefined, strengths |-> row.strengths,
   pricingFreeTier |-> undefined, hasFreeTier |-> undefined,
   ecosystem |-> row.ecosystem, lastVerified |-> row.lastVerified,
   knownIssues |-> undefined, selfHostable |-> row.selfHostable]

\* Mutant of getProvidersByCategory: the status of a row is not looked at.
getProvidersByCategory_AnyStatus(rows, category) ==
  LET selected == SelectSeq(rows, LAMBDA row : row.category = category)
  IN [i \in 1..Len(selected) |-> rowToProvider(selected[i])]

\* SELECT * FROM providers WHERE category = ? AND status = 'active'
getProvidersByCategory(rows, category) ==
  LET selected == SelectSeq(rows, LAMBDA row : row.category = category
                                             /\ row.status = "active")
  IN [i \in 1..Len(selected) |-> rowToProvider(selected[i])]

\* getProviderEcosystems().get(name): the ecosystem of the last active row
\* with that lower-case name and a non-empty ecosystem.
ecosystemOf(rows, name) ==
  LET selected == SelectSeq(rows, LAMBDA row : /\ row.status = "active"
                                             /\ row.ecosystem # undefined
                                             /\ Val(row.ecosystem) # <<>>
                                             /\ AsTuple(toLowerCase(row.name)) = name)
  IN IF selected = <<>> THEN undefined ELSE selected[Len(selected)].ecosystem

\* The ecosystems of the providers of all positive experiences.
usedEcosystems(rows, allExperiences) ==
  { Val(ecosystemOf(rows, AsTuple(toLowerCase(allExperiences[i].api)))) :
      i \in { j \in 1..Len(allExperiences) :
                /\ allExperiences[j].outcome = "positive"
                /\ ecosystemOf(rows, AsTuple(toLowerCase(allExperiences[j].api)))
                     # undefined } }

filterExperiencesForCategory(allExperiences, category) ==
  SelectSeq(allExperiences,
            LAMBDA e : AsTuple(toLowerCase(e.category)) = AsTuple(toLowerCase(category)))

filterPatternsForCategory(allPatterns, category) ==
  SelectSeq(allPatterns,
            LAMBDA p : \/ includes(p.signal, colon \o AsTuple(toLowerCase(category)))
                       \/ startsWith(p.signal, contextPrefix))

ai == <<"a","i">>

\* CATEGORY_GAPS for the categories of the model: the fields a category
\* asks for, with their impact.
payments == <<"p","a","y","m","e","n","t","s">>

CATEGORY_GAPS(category) ==
  IF category = email
  THEN Some(<<[path |-> "constraints.compliance", impact |-> "high"],
              [path |-> "project.regions", impact |-> "medium"]>>)
  ELSE IF category = payments
  THEN Some(<<[path |-> "constraints.compliance", impact |-> "high"],
              [path |-> "project.regions", impact |-> "high"]>>)
  ELSE IF category = ai
  THEN Some(<<[path |-> "constraints.budgetCeiling.monthly", impact |-> "high"],
              [path |-> "project.scale", impact |-> "medium"]>>)
  ELSE undefined

\* getNestedValue(effective, path) === undefined, or an empty array.  The
\* project documents of the model declare no regions.
isGap(effectiveProfile, path) ==
  LET project == effectiveProfile.project
      monthly == IF effectiveProfile.constraints.budgetCeiling = undefined
                 THEN undefined
                 ELSE Val(effectiveProfile.constraints.budgetCeiling).monthly
  IN CASE path = "constraints.compliance" ->
            effectiveProfile.constraints.compliance \in {undefined, Some(<<>>)}
       [] path = "constraints.budgetCeiling.monthly" -> monthly = undefined
       [] path = "project.scale" -> project = undefined \/ Val(project).scale = undefined
       [] path = "project.regions" -> TRUE

detectGaps(effectiveProfile, category) ==
  LET config == CATEGORY_GAPS(AsTuple(toLowerCase(category)))
  IN IF config = undefined
     THEN IF isGap(effectiveProfile, "project.scale")
          THEN <<[field |-> "project.scale", impact |-> "medium"]>>
          ELSE <<>>
     ELSE LET missing == SelectSeq(Val(config),
                                   LAMBDA f : isGap(effectiveProfile, f.path))
          IN [i \in 1..Len(missing) |->
                [field |-> missing[i].path, impact |-> missing[i].impact]]

HIGH_CONFIDENCE_SCORE == 30

MEDIUM_CONFIDENCE_SCORE == 15

MAX_ALTERNATIVES == 3

\* Mutant of confidenceTier: the gaps are not looked at.
confidenceTier_ScoreOnly(topScore, gaps) ==
  IF topScore >= Points(HIGH_CONFIDENCE_SCORE) THEN "high"
  ELSE IF topScore >= Points(MEDIUM_CONFIDENCE_SCORE) THEN "medium"
  ELSE "low"

\* The confidence tier of a recommendation.
confidenceTier(topScore, gaps) ==
  LET highImpactGaps == SelectSeq(gaps, LAMBDA g : g.impact = "high")
  IN IF topScore >= Points(HIGH_CONFIDENCE_SCORE) /\ Len(highImpactGaps) = 0
     THEN "high"
     ELSE IF topScore >= Points(MEDIUM_CONFIDENCE_SCORE) /\ Len(highImpactGaps) <= 1
     THEN "medium"
     ELSE "low"

\* The avoid list of recommend, in lower case.
avoidList(effectiveProfile) ==
  LET avoided == OrElse(effectiveProfile.preferences.avoidProviders, <<>>)
  IN [i \in 1..Len(avoided) |-> AsTuple(toLowerCase(avoided[i]))]

\* .filter(p => p.score >= 0)
isRankable(candidateScore) == candidateScore >= 0

\* Mutant of notAvoided: the names are compared as written.
notAvoided_AsWritten(avoided, candidate) == ~arrayIncludes(avoided, candidate.name)

\* .filter(p => !avoidList.includes(p.name.toLowerCase()))
notAvoided(avoided, candidate) ==
  ~arrayIncludes(avoided, AsTuple(toLowerCase(candidate.name)))

\* The candidates of recommend, scored, filtered and sorted.
scoredProviders(providers, effectiveProfile, categoryExperiences, categoryPatterns, ecosystemContext, today) ==
  LET avoided == avoidList(effectiveProfile)
      candidates == SelectSeq(providers, LAMBDA p : notAvoided(avoided, p))
      scoredAll == [i \in 1..Len(candidates) |->
                      [provider |-> candidates[i],
                       score |-> scoreProvider(candidates[i], effectiveProfile,
                                               categoryExperiences, categoryPatterns,
                                               ecosystemContext, today)]]
      kept == SelectSeq(scoredAll, LAMBDA s : isRankable(s.score))
  IN SortDescending(kept, [i \in 1..Len(kept) |-> kept[i].score])

\* scored.slice(1, 4) with the tradeoffs against the top candidate.
alternativesOf(scored) ==
  LET top == scored[1]
      rest == SubSeq(scored, 2, Min(Len(scored), 1 + MAX_ALTERNATIVES))
      betterDx(s) == /\ arrayIncludes(OrElse(s.provider.strengths, <<>>), "dx")
                     /\ ~arrayIncludes(OrElse(top.provider.strengths, <<>>), "dx")
      selfHostable(s) == s.provider.selfHostable /\ ~top.provider.selfHostable
  IN [i \in 1..Len(rest) |->
        [provider |-> rest[i].provider.name,
         tradeoff |-> IF betterDx(rest[i]) \/ selfHostable(rest[i])
                      THEN (IF betterDx(rest[i]) THEN <<"better DX">> ELSE <<>>)
                             \o (IF selfHostable(rest[i]) THEN <<"self-hostable">> ELSE <<>>)
                      ELSE <<"lower score">>]]

unknownProvider == <<"u","n","k","n","o","w","n">>

noneProvider == <<"n","o","n","e">>

\* recommend, given the documents and the taste it loaded and the rows of
\* the providers table: the response (without its reason text and its
\* decision id), with the effective profile and the ranking it was taken
\* from.
recommend(category, globalDefaultsDoc, localProfileDoc, loadedTaste, rows, today) ==
  LET normal == normalizeCategory(category)
      effectiveProfile == loadEffectiveProfile(globalDefaultsDoc, localProfileDoc).effective
      categoryExperiences == filterExperiencesForCategory(loadedTaste.experiences, normal)
      categoryPatterns == filterPatternsForCategory(loadedTaste.patterns, normal)
      providers == getProvidersByCategory(rows, normal)
      ecosystemContext == Some(usedEcosystems(rows, loadedTaste.experiences))
      scored == scoredProviders(providers, effectiveProfile, categoryExperiences,
                                categoryPatterns, ecosystemContext, today)
      gaps == detectGaps(effectiveProfile, normal)
  IN IF Len(providers) = 0
     THEN [provider |-> unknownProvider, confidence |-> "low",
           alternatives |-> undefined, gaps |-> undefined,
           catalogVersion |-> "0.0.0", context |-> undefined,
           effective |-> effectiveProfile, scored |-> <<>>]
     ELSE IF Len(scored) = 0
     THEN [provider |-> noneProvider, confidence |-> "low",
           alternatives |-> undefined, gaps |-> undefined,
           catalogVersion |-> "0.0.0", context |-> undefined,
           effective |-> effectiveProfile, scored |-> <<>>]
     ELSE [provider |-> scored[1].provider.name,
           confidence |-> confidenceTier(scored[1].score, gaps),
           alternatives |-> IF Len(scored) > 1 THEN Some(alternativesOf(scored))
                            ELSE undefined,
           gaps |-> IF Len(gaps) > 0 THEN Some(gaps) ELSE undefined,
           catalogVersion |-> "2.0.0",
           context |-> Some([relevantExperiences |->
                          SubSeq(categoryExperiences, 1, Min(5, Len(categoryExperiences))),
                        appliedPatterns |->
                          [i \in 1..Min(5, Len(categoryPatterns)) |->
                             [signal |-> categoryPatterns[i].signal,
                              confidence |-> categoryPatterns[i].confidence]]]),
           effective |-> effectiveProfile,
           scored |-> [i \in 1..Len(scored) |->
                         [name |-> scored[i].provider.name, score |-> scored[i].score]]]

(***************************************************************************)
(* Recommendations: the documents, the ledger and the catalog are what a   *)
(* project may hold when the tool is called.                               *)
(***************************************************************************)
Resend == <<"R","e","s","e","n","d">>
Loops == <<"L","o","o","p","s">>
Brevo == <<"B","r","e","v","o">>
OpenAI == <<"O","p","e","n","A","I">>
aiAudio == <<"a","i","-","a","u","d","i","o">>
Stripe == <<"S","t","r","i","p","e">>

CatalogRow(name, category, compliance, strengths, bestFor, lastVerified) ==
  [name |-> name, category |-> category, status |-> "active",
   compliance |-> compliance, strengths |-> strengths, bestFor |-> bestFor,
   ecosystem |-> undefined, lastVerified |-> lastVerified, selfHostable |-> FALSE]

\* The email providers of the catalog, in the order of the table.
emailRows ==
  << CatalogRow(Mux, email, Some(<<SOC2>>), Some(<<"dx">>), Some(<<"startup">>),
                Some(Today)),
     [CatalogRow(Neon, email, Some(<<soc2, HIPAA>>), Some(<<"reliability">>),
                 Some(<<"enterprise">>), Some(Today - STALE_DAYS - 1))
        EXCEPT !.ecosystem = Some(supabase), !.selfHostable = TRUE],
     CatalogRow(Resend, email, undefined, Some(<<"dx", "reliability">>),
                Some(<<"startup">>), Some(Today)),
     CatalogRow(Loops, email, Some(<<SOC2>>), undefined, undefined, undefined),
     CatalogRow(Brevo, email, Some(<<SOC2>>), Some(<<"cost">>), Some(<<"hobby">>),
                Some(Today)) >>

\* The rows of the other categories: one provider that is no longer active,
\* one provider of the ai category and one of the payments category.
otherRows ==
  << [CatalogRow(Mux, sms, undefined, undefined, undefined, undefined)
        EXCEPT !.status = "deprecated"],
     CatalogRow(OpenAI, ai, undefined, Some(<<"dx">>), undefined, Some(Today)),
     CatalogRow(Stripe, payments, Some(<<SOC2>>), Some(<<"dx">>), Some(<<"startup">>),
                Some(Today)) >>

\* The rows of `rows` at the positions `kept`, in their order.
RowsAt(rows, kept) == SelectSeq([i \in 1..Len(rows) |-> <<i, rows[i]>>],
                                LAMBDA r : r[1] \in kept)

\* The catalogs of the model: the other rows, with one email row or with
\* the first email rows.
Catalogs ==
  { [i \in 1..Len(RowsAt(emailRows, kept)) |-> RowsAt(emailRows, kept)[i][2]] \o otherRows :
      kept \in {{i} : i \in 1..Len(emailRows)} \cup {1..n : n \in 0..Len(emailRows)} }

\* Global defaults that require SOC2 and avoid mux.
strictDefaults ==
  [constraints |-> Some([EmptyConstraints EXCEPT !.compliance = Some(<<SOC2>>)]),
   preferences |-> Some([EmptyPreferences EXCEPT !.avoidProviders = Some(<<mux>>)])]

\* Local profiles: one that avoids Neon, one that requires HIPAA.
avoidingProfile ==
  [project |-> Some([scale |-> Some("startup")]),
   constraints |-> undefined,
   preferences |-> Some([EmptyPreferences EXCEPT
                           !.prioritize = Some(<<"dx", "reliability">>),
                           !.avoidProviders = Some(<<Neon>>)])]

regulatedProfile ==
  [project |-> Some([scale |-> Some("enterprise")]),
   constraints |-> Some([EmptyConstraints EXCEPT !.compliance = Some(<<HIPAA>>)]),
   preferences |-> undefined]

\* profile.json: missing, one of the two profiles, or the text of a profile
\* cut short, which JSON.parse rejects.
LocalFiles ==
  { undefined, Some([parses |-> FALSE, data |-> avoidingProfile]),
    Some([parses |-> TRUE, data |-> avoidingProfile]),
    Some([parses |-> TRUE, data |-> regulatedProfile]) }

Recorded(id, api, category, outcome) ==
  [id |-> id, api |-> api, category |-> category, outcome |-> outcome,
   context |-> undefined, notes |-> undefined, notesPrivate |-> FALSE, date |-> 0]

\* The decisions a project may have recorded before.
Ledgers ==
  { <<>>,
    <<Recorded(1, Resend, email, "negative")>>,
    <<Recorded(1, Brevo, email, "positive"), Recorded(2, OpenAI, aiAudio, "positive")>>,
    <<Recorded(1, Neon, sms, "positive"), Recorded(2, Mux, email, "negative")>> }

Requests == {email, Email, ai, sms, payments}

InitRecommend ==
  /\ request = undefined
  /\ normalized = undefined
  /\ recommendation = undefined
  /\ catalog \in Catalogs
  /\ localFile \in LocalFiles
  /\ globalDefaults \in {undefined, Some(strictDefaults)}
  /\ localProfile = undefined
  /\ loaded = undefined
  /\ docEdits = 0
  /\ ledger \in Ledgers
  /\ nextId = Len(ledger) + 1
  /\ now = 0
  /\ clock = 0
  /\ cachedTaste = undefined
  /\ cacheTimestamp = 0
  /\ taste = undefined
  /\ hit = FALSE
  /\ IdleScore
  /\ IdleCalls
  /\ IdleUpdate
  /\ IdleSharing
  /\ IdleFiles

\* The recommend handler, run without interruption: it loads the effective
\* profile, takes the taste from the cache or computes and stores it, and
\* ranks the providers of the category.
Recommend ==
  /\ \E category \in Requests :
       LET fresh == isFresh(cachedTaste, cacheTimestamp, DateNow)
           loadedTaste == IF fresh THEN Val(cachedTaste)
                          ELSE computePatterns(loadAllDecisions(ownProject(ledger)),
                                               DEFAULT_DECAY_HALF_LIFE_DAYS, now)
       IN /\ request' = Some(category)
          /\ normalized' = Some(normalizeCategory(category))
          /\ cachedTaste' = Some(loadedTaste)
          /\ cacheTimestamp' = IF fresh THEN cacheTimestamp ELSE DateNow
          /\ taste' = Some(loadedTaste)
          /\ hit' = fresh
          /\ recommendation' =
               Some(recommend(category, globalDefaults, loadLocalProfile(localFile),
                              loadedTaste, catalog, Today))
  /\ UNCHANGED <<catalog, localFile, ledger, nextId, now, clock>>
  /\ UNCHANGED <<varsScore, varsMerge, varsCalls, varsUpdate, varsSharing, varsFiles>>

NextRecommend == Recommend

SpecRecommend == InitRecommend /\ [][NextRecommend]_vars

(***************************************************************************)
(* Claims about recommendations.                                           *)
(***************************************************************************)
Response == Val(recommendation)

\* The rows the catalog returns for the normalised category.
ActiveRows ==
  SelectSeq(catalog, LAMBDA row : row.category = Val(normalized) /\ row.status = "active")

\* The local document in use, and the entries of the two avoid lists.
LocalDocument ==
  IF localFile # undefined /\ Val(localFile).parses
  THEN Some(Val(localFile).data) ELSE undefined

AvoidEntries(doc) ==
  LET preferences == Get(doc, "preferences")
      avoided == IF preferences = undefined THEN <<>>
                 ELSE OrElse(Val(preferences).avoidProviders, <<>>)
  IN {avoided[i] : i \in 1..Len(avoided)}

SameName(a, b) == AsTuple(toLowerCase(a)) = AsTuple(toLowerCase(b))

Avoided(name) ==
  \E entry \in AvoidEntries(globalDefaults) \cup AvoidEntries(LocalDocument) :
    SameName(entry, name)

\* The row fails the compliance gate of the effective profile.
Disqualified(row) ==
  LET required == OrElse(Response.effective.constraints.compliance, <<>>)
  IN Len(required) > 0 /\ ~hasAll(required, OrElse(row.compliance, <<>>))

AlternativeNames ==
  IF Response.alternatives = undefined THEN {}
  ELSE {Val(Response.alternatives)[i].provider : i \in 1..Len(Val(Response.alternatives))}

\* C13: with no provider in the catalog the response is 'unknown', with
\* providers that are all avoided or disqualified it is 'none'; both have
\* low confidence, they differ, and neither is given in the other case.
C13_EmptyResults ==
  recommendation # undefined =>
    /\ Len(ActiveRows) = 0 =>
         Response.provider = unknownProvider /\ Response.confidence = "low"
    /\ /\ Len(ActiveRows) > 0
       /\ \A i \in 1..Len(ActiveRows) :
            Avoided(ActiveRows[i].name) \/ Disqualified(ActiveRows[i])
       => Response.provider = noneProvider /\ Response.confidence = "low"
    /\ Response.provider = unknownProvider => Len(ActiveRows) = 0
    /\ Response.provider = noneProvider => Len(ActiveRows) > 0
    /\ unknownProvider # noneProvider

\* The catalog has providers for the category, some avoided and the others
\* disqualified, and the response is 'none'.
C13_Witness ==
  /\ recommendation # undefined
  /\ Response.provider = noneProvider
  /\ \E i \in 1..Len(ActiveRows) : Avoided(ActiveRows[i].name)
  /\ \E i \in 1..Len(ActiveRows) :
       ~Avoided(ActiveRows[i].name) /\ Disqualified(ActiveRows[i])
  /\ \A i \in 1..Len(ActiveRows) :
       Avoided(ActiveRows[i].name) \/ Disqualified(ActiveRows[i])

\* C14: a provider whose name is on the avoid list of the global defaults or
\* of the local profile, in any case, is neither recommended nor an
\* alternative.
C14_AvoidedNeverReturned ==
  recommendation # undefined =>
    /\ ~Avoided(Response.provider)
    /\ \A name \in AlternativeNames : ~Avoided(name)

\* Mux is in the catalog and passes the compliance gate, the global
\* defaults avoid mux and the local profile avoids Neon, and another
\* provider is recommended.
C14_Witness ==
  /\ recommendation # undefined
  /\ \E i \in 1..Len(ActiveRows) :
       ActiveRows[i].name = Mux /\ ~Disqualified(ActiveRows[i])
  /\ \E i \in 1..Len(ActiveRows) : ActiveRows[i].name = Neon
  /\ mux \in AvoidEntries(globalDefaults)
  /\ Neon \in AvoidEntries(LocalDocument)
  /\ Response.provider \notin {noneProvider, unknownProvider}

\* The effective profile built from the global defaults alone.
DefaultsOnly ==
  [project |-> undefined,
   constraints |-> OrElse(Get(globalDefaults, "constraints"), EmptyConstraints),
   preferences |-> OrElse(Get(globalDefaults, "preferences"), EmptyPreferences)]

LocalUnusable == localFile = undefined \/ ~Val(localFile).parses

\* C15: with a missing or unparseable profile.json the effective profile is
\* the one of the global defaults, and the response is the one given
\* without a local document.
C15_MalformedAsMissing ==
  recommendation # undefined /\ LocalUnusable =>
    /\ Response.effective = DefaultsOnly
    /\ Response = recommend(Val(request), globalDefaults, undefined, Val(taste),
                            catalog, Today)

\* profile.json does not parse and a provider is recommended.
C15_Witness ==
  /\ recommendation # undefined
  /\ localFile # undefined
  /\ ~Val(localFile).parses
  /\ globalDefaults # undefined
  /\ Response.provider \notin {noneProvider, unknownProvider}

\* The category component of a signal: what follows its last colon.
RECURSIVE afterLastColon(_)
afterLastColon(signal) ==
  IF ~arrayIncludes(signal, ":") THEN signal
  ELSE afterLastColon(Tail(signal))

AppliedSignals ==
  IF Response.context = undefined THEN {}
  ELSE {Val(Response.context).appliedPatterns[i].signal :
          i \in 1..Len(Val(Response.context).appliedPatterns)}

Candidates ==
  LET rows == SelectSeq(ActiveRows, LAMBDA row : ~Avoided(row.name))
  IN [i \in 1..Len(rows) |->
        [name |-> rows[i].name,
         score |-> scoreProvider(rowToProvider(rows[i]), Response.effective,
                                 filterExperiencesForCategory(Val(taste).experiences,
                                                              Val(normalized)),
                                 filterPatternsForCategory(Val(taste).patterns,
                                                           Val(normalized)),
                                 Some(usedEcosystems(catalog, Val(taste).experiences)),
                                 Today)]]

\* The ranking holds exactly the candidates that satisfy `keep`, by score
\* descending, the first is recommended and the next three at most are the
\* alternatives.
Ranks(keep(_)) ==
  LET kept == SelectSeq(Candidates, keep)
      ranked == Response.scored
  IN /\ Len(ranked) = Len(kept)
     /\ \A i \in 1..Len(kept) : \E j \in 1..Len(ranked) : ranked[j] = kept[i]
     /\ \A j \in 1..(Len(ranked) - 1) : ranked[j].score >= ranked[j + 1].score
     /\ Len(ranked) > 0 =>
          /\ Response.provider = ranked[1].name
          /\ \A i \in 1..Len(kept) : ranked[1].score >= kept[i].score
          /\ LET shown == IF Response.alternatives = undefined THEN <<>>
                          ELSE Val(Response.alternatives)
             IN /\ Len(shown) = Min(Len(ranked) - 1, MAX_ALTERNATIVES)
                /\ \A i \in 1..Len(shown) : shown[i].provider = ranked[i + 1].name

NotSentinel(candidate) == candidate.score # -ConfUnit

NotNegative(candidate) == candidate.score >= 0

\* C20: recommend ranks exactly the candidates that are not avoided and
\* whose score is not the sentinel -1, also one with a negative score.
C20_RanksAllQualified ==
  recommendation # undefined /\ Len(ActiveRows) > 0 => Ranks(NotSentinel)

\* What recommend ranks: the candidates that are not avoided and whose
\* score is not negative.
C20_RanksNonNegative ==
  recommendation # undefined /\ Len(ActiveRows) > 0 => Ranks(NotNegative)

\* The high-impact gaps the response lists.
HighImpactGaps ==
  IF Response.gaps = undefined THEN 0
  ELSE Cardinality({i \in 1..Len(Val(Response.gaps)) : Val(Response.gaps)[i].impact = "high"})

Recommended == recommendation # undefined /\ Response.provider \notin {noneProvider, unknownProvider}

TopScore == Response.scored[1].score

TierRank(tier) == CASE tier = "low" -> 0 [] tier = "medium" -> 1 [] tier = "high" -> 2

\* The most high-impact gaps a category asks about.
MaxHighGaps == Len(Val(CATEGORY_GAPS(payments)))

\* `n` unanswered high-impact gaps.
HighGaps(n) == [i \in 1..n |-> [field |-> "constraints.compliance", impact |-> "high"]]

\* C21: the tier is high iff the top score is at least 30 with no
\* high-impact gap, medium iff it is not high and the top score is at least
\* 15 with at most one high-impact gap, and low otherwise; more high-impact
\* gaps never raise the tier of a score, and a candidate that can be ranked
\* is returned whatever the gaps are.
C21_ConfidenceTier ==
  /\ Recommended =>
       LET isHigh == TopScore >= 30 * ConfUnit /\ HighImpactGaps = 0
           isMedium == ~isHigh /\ TopScore >= 15 * ConfUnit /\ HighImpactGaps <= 1
       IN /\ Response.confidence = "high" <=> isHigh
          /\ Response.confidence = "medium" <=> isMedium
          /\ Response.confidence = "low" <=> ~isHigh /\ ~isMedium
          /\ \A fewer \in 0..MaxHighGaps, more \in 0..MaxHighGaps :
               fewer <= more =>
                 TierRank(confidenceTier(TopScore, HighGaps(more)))
                   <= TierRank(confidenceTier(TopScore, HighGaps(fewer)))
  /\ recommendation # undefined
       /\ (\E i \in 1..Len(Candidates) : Candidates[i].score >= 0)
       => Recommended /\ Response.gaps # undefined

\* A top score of 30 or more with one high-impact gap is given the tier
\* medium.
C21_Witness ==
  /\ Recommended
  /\ TopScore >= 30 * ConfUnit
  /\ HighImpactGaps = 1
  /\ Response.confidence = "medium"

\* A top score of 15 or more with two high-impact gaps is given the tier
\* low, and the provider is returned.
C21_LowWitness ==
  /\ Recommended
  /\ TopScore >= 15 * ConfUnit
  /\ HighImpactGaps = 2
  /\ Response.confidence = "low"

\* A top score of 30 or more without a high-impact gap is given the tier
\* high.
C21_HighWitness ==
  /\ Recommended
  /\ HighImpactGaps = 0
  /\ Response.confidence = "high"

(***************************************************************************)
(* The project registry (src/projects.ts) and the decisions files of two   *)
(* projects (src/decisions.ts), with the pattern cache of the server that  *)
(* runs in one of them.                                                    *)
(***************************************************************************)
\* Calls on the registry and the decisions files.
MaxCalls == 4

\* The project directory of the server and the one of another project.
projectDir == "app"

otherDir == "lab"

ProjectPaths == {projectDir, otherDir}

\* existsSync(p.path): the project directories are not deleted.
existsSync(path) == path \in ProjectPaths

\* The position of the project in the registry, 0 when it is not registered.
findProject(projects, path) ==
  IF \E i \in 1..Len(projects) : projects[i].path = path
  THEN CHOOSE i \in 1..Len(projects) :
         /\ projects[i].path = path
         /\ \A j \in 1..(i - 1) : projects[j].path # path
  ELSE 0

\* ensureProjectRegistered: a project that is not registered is added,
\* sharing by default, under the name of its directory.
ensureProjectRegistered(projects, path) ==
  IF findProject(projects, path) # 0 THEN projects
  ELSE Append(projects, [path |-> path, name |-> path, shareToGlobalTaste |-> TRUE])

\* Mutant of getActiveProjects: the sharing flag is not looked at.
getActiveProjects_All(projects) ==
  SelectSeq(projects, LAMBDA p : existsSync(p.path))

\* getActiveProjects: the registered projects that exist and share.
getActiveProjects(projects) ==
  SelectSeq(projects, LAMBDA p : existsSync(p.path) /\ p.shareToGlobalTaste)

\* updateProject with updates { shareToGlobalTaste }: null when the project
\* is not registered.
updateProject(projects, path, share) ==
  LET i == findProject(projects, path)
  IN IF i = 0 THEN [projects |-> projects, result |-> undefined]
     ELSE LET updatedProjects == [projects EXCEPT ![i].shareToGlobalTaste = share]
          IN [projects |-> updatedProjects, result |-> Some(updatedProjects[i])]

\* Mutant of recordDecision: the file is written with the new decision
\* only.
recordDecision_Overwrite(decisions, input, id, date) ==
  LET decision == [id |-> id, api |-> input.api, category |-> input.category,
                   outcome |-> input.outcome, context |-> input.context,
                   notes |-> input.notes, notesPrivate |-> input.notesPrivate,
                   date |-> date]
  IN [decisions |-> <<decision>>, result |-> decision]

\* recordDecision: the decision is pushed on the decisions of the file and
\* returned; its id is a fresh UUID.
recordDecision(decisions, input, id, date) ==
  LET decision == [id |-> id, api |-> input.api, category |-> input.category,
                   outcome |-> input.outcome, context |-> input.context,
                   notes |-> input.notes, notesPrivate |-> input.notesPrivate,
                   date |-> date]
  IN [decisions |-> Append(decisions, decision), result |-> decision]

\* updateDecision: the updates that are defined are assigned to the first
\* decision with the id and the file is saved; null, with no save, when
\* there is none.
updateDecision(decisions, id, updates) ==
  IF ~\E i \in 1..Len(decisions) : decisions[i].id = id
  THEN [decisions |-> decisions, result |-> undefined]
  ELSE LET i == CHOOSE k \in 1..Len(decisions) :
                  /\ decisions[k].id = id
                  /\ \A j \in 1..(k - 1) : decisions[j].id # id
           found == decisions[i]
           decision ==
             [found EXCEPT
                !.outcome = IF updates.outcome # undefined
                            THEN Val(updates.outcome) ELSE @,
                !.context = IF updates.context # undefined
                            THEN updates.context ELSE @,
                !.notes = IF updates.notes # undefined THEN updates.notes ELSE @,
                !.notesPrivate = IF updates.notesPrivate # undefined
                                 THEN Val(updates.notesPrivate) ELSE @]
       IN [decisions |-> [decisions EXCEPT ![i] = decision],
           result |-> Some(decision)]

\* The active projects with the decisions loadProjectDecisions reads.
activeDecisions(projects, files) ==
  LET active == getActiveProjects(projects)
  IN SelectSeq([i \in 1..Len(active) |->
                  ProjectDecisions(active[i].name, files[active[i].path])],
               LAMBDA p : TRUE)

keyNote == <<"k", "e", "y">>

\* A note of 101 characters.
longNote == SubSeq([i \in 1..(NOTE_SUMMARY_LENGTH + 1) |-> "n"], 1, NOTE_SUMMARY_LENGTH + 1)

\* The input of record_decision in the project of the server: a decision
\* with a long note that is not private.
SharedInputs ==
  { [api |-> Mux, category |-> email, outcome |-> "positive", context |-> undefined,
     notes |-> Some(longNote), notesPrivate |-> FALSE] }

\* The input of record_decision in the other project: a decision with a
\* private note.
PrivateInputs ==
  { [api |-> Neon, category |-> email, outcome |-> "positive",
     context |-> Some(mvpContext), notes |-> Some(keyNote), notesPrivate |-> TRUE] }

noUpdates ==
  [outcome |-> undefined, context |-> undefined, notes |-> undefined,
   notesPrivate |-> undefined]

\* The updates of updateDecision: a corrected outcome with a change of the
\* privacy flag; context and notes are not given.
UpdateInputs ==
  { [noUpdates EXCEPT !.outcome = Some("negative"), !.notesPrivate = Some(TRUE)] }

CallsMade == IF lastCall = undefined THEN 0 ELSE Val(lastCall).number

\* The call just made.
Call(op, path, id, result) ==
  Some([number |-> CallsMade + 1, at |-> DateNow, op |-> op, path |-> path,
        id |-> id, result |-> result])

InitSharing ==
  /\ registry = <<>>
  /\ decisionFiles = [path \in ProjectPaths |-> <<>>]
  /\ lastCall = undefined
  /\ IdleTaste
  /\ IdleCalls
  /\ IdleScore
  /\ IdleMerge
  /\ IdleUpdate
  /\ IdleRecommend
  /\ IdleFiles

othersSharing == <<varsScore, varsMerge, varsCalls, varsUpdate, varsRecommend, varsFiles, ledger, now>>

\* The record_decision handler of the server: the project is registered,
\* the decision is recorded, the cache is invalidated and computePatterns
\* recomputes and stores the taste.
RecordHere ==
  /\ CallsMade < MaxCalls
  /\ \E input \in SharedInputs :
       LET recorded == recordDecision(decisionFiles[projectDir], input, nextId, now)
           projects == ensureProjectRegistered(registry, projectDir)
           files == [decisionFiles EXCEPT ![projectDir] = recorded.decisions]
           result == computePatterns(loadAllDecisions(activeDecisions(projects, files)),
                                     DEFAULT_DECAY_HALF_LIFE_DAYS, now)
       IN /\ registry' = projects
          /\ decisionFiles' = files
          /\ lastCall' = Call("recordDecision", projectDir, nextId, Some(recorded.result))
          /\ cachedTaste' = Some(result)
          /\ cacheTimestamp' = DateNow
          /\ taste' = cachedTaste'
          /\ hit' = FALSE
  /\ nextId' = nextId + 1
  /\ UNCHANGED clock
  /\ UNCHANGED othersSharing

\* record_decision in the other project, whose server has a cache of its
\* own.
RecordElsewhere ==
  /\ CallsMade < MaxCalls
  /\ \E input \in PrivateInputs :
       LET recorded == recordDecision(decisionFiles[otherDir], input, nextId, now)
       IN /\ registry' = ensureProjectRegistered(registry, otherDir)
          /\ decisionFiles' = [decisionFiles EXCEPT ![otherDir] = recorded.decisions]
          /\ lastCall' = Call("recordDecision", otherDir, nextId, Some(recorded.result))
  /\ nextId' = nextId + 1
  /\ UNCHANGED <<clock, cachedTaste, cacheTimestamp, taste, hit>>
  /\ UNCHANGED othersSharing

UpdateDecision_Invalidating ==
  /\ CallsMade < MaxCalls
  /\ \E path \in ProjectPaths, id \in 1..nextId, updates \in UpdateInputs :
       LET saved == updateDecision(decisionFiles[path], id, updates)
       IN /\ decisionFiles' = [decisionFiles EXCEPT ![path] = saved.decisions]
          /\ lastCall' = Call("updateDecision", path, id, saved.result)
  /\ cachedTaste' = invalidatePatternCache.cachedTaste
  /\ cacheTimestamp' = invalidatePatternCache.cacheTimestamp
  /\ UNCHANGED <<registry, nextId, clock, taste, hit>>
  /\ UNCHANGED othersSharing

\* updateDecision on a project, with the id of a decision of some project
\* or an id no decision has; the cache is left alone.
UpdateDecision ==
  /\ CallsMade < MaxCalls
  /\ \E path \in ProjectPaths, id \in 1..nextId, updates \in UpdateInputs :
       LET saved == updateDecision(decisionFiles[path], id, updates)
       IN /\ decisionFiles' = [decisionFiles EXCEPT ![path] = saved.decisions]
          /\ lastCall' = Call("updateDecision", path, id, saved.result)
  /\ UNCHANGED <<registry, nextId, clock, cachedTaste, cacheTimestamp, taste, hit>>
  /\ UNCHANGED othersSharing

\* manage_projects with action 'update' and updates { shareToGlobalTaste };
\* the cache is left alone.
UpdateProject ==
  /\ CallsMade < MaxCalls
  /\ \E path \in ProjectPaths, share \in BOOLEAN :
       LET saved == updateProject(registry, path, share)
       IN /\ registry' = saved.projects
          /\ lastCall' = Call("updateProject", path, 0, saved.result)
  /\ UNCHANGED <<decisionFiles, nextId, clock, cachedTaste, cacheTimestamp, taste, hit>>
  /\ UNCHANGED othersSharing

\* One call of computePatterns in the server, run without interruption.
GetTaste ==
  /\ CallsMade < MaxCalls
  /\ IF isFresh(cachedTaste, cacheTimestamp, DateNow)
     THEN /\ taste' = cachedTaste
          /\ hit' = TRUE
          /\ UNCHANGED <<cachedTaste, cacheTimestamp>>
     ELSE LET result ==
                computePatterns(loadAllDecisions(activeDecisions(registry, decisionFiles)),
                                DEFAULT_DECAY_HALF_LIFE_DAYS, now)
          IN /\ cachedTaste' = Some(result)
             /\ cacheTimestamp' = DateNow
             /\ taste' = cachedTaste'
             /\ hit' = FALSE
  /\ lastCall' = Call("computePatterns", projectDir, 0, undefined)
  /\ UNCHANGED <<registry, decisionFiles, nextId, clock>>
  /\ UNCHANGED othersSharing

\* Time passes.
Elapse ==
  /\ clock < MaxTicks * TICK_SECONDS
  /\ clock' = clock + TICK_SECONDS
  /\ UNCHANGED <<nextId, cachedTaste, cacheTimestamp, taste, hit>>
  /\ UNCHANGED varsSharing
  /\ UNCHANGED othersSharing

NextSharing ==
  \/ RecordHere
  \/ RecordElsewhere
  \/ UpdateDecision
  \/ UpdateProject
  \/ GetTaste
  \/ Elapse

SpecSharing == InitSharing /\ [][NextSharing]_vars

(***************************************************************************)
(* Claims about the ledger and about what is shared.                       *)
(***************************************************************************)
IdsOf(decisions) == {decisions[i].id : i \in 1..Len(decisions)}

AllIds(files) == UNION {IdsOf(files[path]) : path \in ProjectPaths}

\* The two decisions agree on everything updateDecision may not change.
SameCreation(a, b) ==
  a.id = b.id /\ a.api = b.api /\ a.category = b.category /\ a.date = b.date

\* The step of a call on the ledger of `path`.
LedgerStep(path) ==
  LET before == decisionFiles[path]
      after == decisionFiles'[path]
      call == Val(lastCall')
      called == lastCall' # lastCall /\ call.path = path
  IN /\ Len(after) >= Len(before)
     /\ \A i \in 1..Len(before) : SameCreation(after[i], before[i])
     /\ called /\ call.op = "recordDecision" =>
          /\ Len(after) = Len(before) + 1
          /\ SubSeq(after, 1, Len(before)) = before
          /\ after[Len(after)].id \notin AllIds(decisionFiles)
          /\ call.result = Some(after[Len(after)])
     /\ called /\ call.op = "updateDecision" =>
          IF call.id \in IdsOf(before)
          THEN /\ Len(after) = Len(before)
               /\ \A i \in 1..Len(before) :
                    IF before[i].id = call.id
                    THEN call.result = Some(after[i])
                    ELSE after[i] = before[i]
          ELSE call.result = undefined /\ after = before
     /\ ~(called /\ call.op \in {"recordDecision", "updateDecision"}) =>
          after = before

\* C16: the ledger is append-only. recordDecision adds one decision with a
\* new id and leaves the others as they are; updateDecision leaves id, api,
\* category and date of its decision and every other decision as they are
\* and returns null, changing nothing, for an id no decision has; no step
\* removes a decision.
C16_AppendOnly == [][\A path \in ProjectPaths : LedgerStep(path)]_vars

\* updateDecision has changed the outcome and the privacy flag of one of two
\* decisions of a ledger.
C16_Witness ==
  /\ lastCall # undefined
  /\ Val(lastCall).op = "updateDecision"
  /\ Val(lastCall).result # undefined
  /\ LET decisions == decisionFiles[Val(lastCall).path]
     IN /\ Len(decisions) = 2
        /\ \E i \in 1..2 :
             /\ decisions[i] = Val(Val(lastCall).result)
             /\ decisions[i].outcome = "negative"
             /\ decisions[i].notesPrivate
             /\ decisions[i].notes = Some(longNote)
        /\ \E i \in 1..2 : decisions[i].outcome = "positive"

\* updateDecision was called with an id that no decision of the project has
\* and returned null.
C16_NullWitness ==
  /\ lastCall # undefined
  /\ Val(lastCall).op = "updateDecision"
  /\ Val(lastCall).result = undefined
  /\ Len(decisionFiles[Val(lastCall).path]) > 0

\* The registry says the project shares.
Shares(name) ==
  \E i \in 1..Len(registry) : registry[i].name = name /\ registry[i].shareToGlobalTaste

\* The decision of the project with the id, as its file has it.
DecisionsWith(name, id) ==
  {d \in {decisionFiles[name][i] : i \in 1..Len(decisionFiles[name])} : d.id = id}

\* The decision behind an id, in any project.
ProjectsOf(id) == {path \in ProjectPaths : id \in IdsOf(decisionFiles[path])}

\* The taste holds shared data only: every experience is a decision of a
\* sharing project, the evidence of every pattern is of sharing projects,
\* and the summary of a private decision has no notes.
SharedOnly(shownTaste) ==
  /\ \A i \in 1..Len(shownTaste.experiences) :
       LET experience == shownTaste.experiences[i]
       IN /\ Shares(experience.project)
          /\ DecisionsWith(experience.project, experience.id) # {}
          /\ \A d \in DecisionsWith(experience.project, experience.id) :
               d.notesPrivate => experience.noteSummary = undefined
  /\ \A i \in 1..Len(shownTaste.patterns) :
       \A k \in 1..Len(shownTaste.patterns[i].evidenceIds) :
         \A path \in ProjectsOf(shownTaste.patterns[i].evidenceIds[k]) : Shares(path)

Computed(withHit) ==
  /\ lastCall # undefined
  /\ Val(lastCall).op \in {"computePatterns", "recordDecision"}
  /\ Val(lastCall).path = projectDir
  /\ hit = withHit

\* C17 as stated: whatever computePatterns returns holds shared data only.
C17_SharedOnly ==
  (Computed(TRUE) \/ Computed(FALSE)) => SharedOnly(Val(taste))

\* C17: what loadAllDecisions returns, and what computePatterns computes
\* from it, holds decisions of projects registered as sharing only, and no
\* notes of a private decision; a taste served from the cache is one that
\* was computed less than 30 seconds before.
C17_SharedWhenComputed ==
  /\ LET allDecisions == loadAllDecisions(activeDecisions(registry, decisionFiles))
     IN \A i \in 1..Len(allDecisions) :
          /\ Shares(allDecisions[i].projectName)
          /\ allDecisions[i] \in
               {withProject(d, allDecisions[i].projectName) :
                  d \in DecisionsWith(allDecisions[i].projectName, allDecisions[i].id)}
          /\ allDecisions[i].notesPrivate =>
               toExperienceSummary(allDecisions[i]).noteSummary = undefined
  /\ Computed(FALSE) => SharedOnly(Val(taste))
  /\ Computed(TRUE) =>
       /\ taste = cachedTaste
       /\ Val(lastCall).at - cacheTimestamp < CACHE_TTL_SECONDS

\* computePatterns has computed the taste while one project with decisions
\* had opted out and the other shared a decision with a private note.
C17_Witness ==
  /\ Computed(FALSE)
  /\ Val(lastCall).op = "computePatterns"
  /\ ~Shares(projectDir)
  /\ Len(decisionFiles[projectDir]) > 0
  /\ Shares(otherDir)
  /\ \E i \in 1..Len(Val(taste).experiences) :
       LET experience == Val(taste).experiences[i]
       IN /\ experience.project = otherDir
          /\ experience.noteSummary = undefined
          /\ \E d \in DecisionsWith(otherDir, experience.id) :
               d.notesPrivate /\ d.notes # undefined

\* The taste holds the decisions of the sharing projects as their files
\* have them now, with the patterns the contract prescribes for them.
ReflectsFiles(t) ==
  LET allDecisions == loadAllDecisions(activeDecisions(registry, decisionFiles))
  IN /\ Len(t.experiences) = Len(allDecisions)
     /\ \A i \in 1..Len(allDecisions) :
          /\ t.experiences[i].id = allDecisions[i].id
          /\ t.experiences[i].outcome = allDecisions[i].outcome
     /\ AsContract(t, DEFAULT_DECAY_HALF_LIFE_DAYS)

CacheStep ==
  LET call == Val(lastCall')
      called == lastCall' # lastCall
  IN /\ called /\ call.op = "updateDecision" =>
          /\ cachedTaste' = cachedTaste
          /\ cacheTimestamp' = cacheTimestamp
     /\ called /\ call.op = "computePatterns" =>
          IF cachedTaste # undefined /\ DateNow - cacheTimestamp < CACHE_TTL_SECONDS
          THEN /\ hit'
               /\ taste' = cachedTaste
               /\ cachedTaste' = cachedTaste
               /\ cacheTimestamp' = cacheTimestamp
          ELSE /\ ~hit'
               /\ taste' = cachedTaste'
               /\ cacheTimestamp' = DateNow
               /\ ReflectsFiles(Val(taste'))

\* C28: updateDecision leaves the cached taste and its timestamp as they
\* are; a computePatterns call less than 30 seconds after the cached taste
\* was stored returns it, whatever was updated since, and a call at or
\* after 30 seconds computes the taste of the files as they are.
C28_UpdateKeepsCache == [][CacheStep]_vars

\* A computePatterns call after a corrected outcome was served the cached
\* taste: the experience is positive and counts as evidence of a prefers
\* pattern, while the decisions file says negative.
C28_Witness ==
  /\ Computed(TRUE)
  /\ Val(lastCall).op = "computePatterns"
  /\ \E i \in 1..Len(Val(taste).experiences) :
       LET experience == Val(taste).experiences[i]
       IN /\ experience.outcome = "positive"
          /\ \E d \in DecisionsWith(experience.project, experience.id) :
               d.outcome = "negative"
          /\ \E k \in 1..Len(Val(taste).patterns) :
               /\ startsWith(Val(taste).patterns[k].signal, prefersPrefix)
               /\ \E e \in 1..Len(Val(taste).patterns[k].evidenceIds) :
                    Val(taste).patterns[k].evidenceIds[e] = experience.id

\* A computePatterns call 30 seconds after the taste was stored computed
\* the taste anew: the corrected outcome is in it.
C28_ReflectedWitness ==
  /\ Computed(FALSE)
  /\ Val(lastCall).op = "computePatterns"
  /\ \E i \in 1..Len(Val(taste).experiences) :
       LET experience == Val(taste).experiences[i]
       IN /\ experience.outcome = "negative"
          /\ experience.project = projectDir

(***************************************************************************)
(* Saving and loading a configuration document: saveLocalProfile and       *)
(* saveGlobalDefaults write `<path>.tmp` and rename it over the document,  *)
(* loadLocalProfile and loadGlobalDefaults read the document.  writeFile   *)
(* opens the file (creating or truncating it), writes the text in one or   *)
(* more writes and closes it; every await is a point where another call    *)
(* runs.                                                                   *)
(***************************************************************************)
\* The writes a document's text takes.
MaxChunks == 2

\* The entries of the directory: the document and `path + '.tmp'`.
docPath == "doc"

tmpPath == "tmp"

Names == {docPath, tmpPath}

\* The save calls (two handlers, or two servers, on the same document) and
\* the load call.
Writers == {"w1", "w2"}

Readers == {"r"}

\* A file is named by the directory or held open by a call.
Inodes == 1..(Cardinality(Names) + Cardinality(Writers) + Cardinality(Readers))

\* A file holds the text written so far, chunk by chunk ("" where nothing
\* was written).
emptyFile == [i \in 1..MaxChunks |-> ""]

\* JSON.stringify(profile, null, 2) of the document `document`, complete.
Complete(document) == [i \in 1..MaxChunks |-> document]

previousDocument == "previous"

\* The document a save call was given.
DocumentOf(w) == w

CompleteDocuments == {Complete(d) : d \in {previousDocument} \cup {DocumentOf(w) : w \in Writers}}

idleWriter == [pc |-> "idle", fd |-> undefined, offset |-> 0]

idleReader == [pc |-> "idle", fd |-> undefined, observed |-> undefined]

\* The files in use: named by an entry or held open.
UsedIn(entries, saves, loads) ==
  UNION {entries[n] : n \in Names}
    \cup UNION {saves[w].fd : w \in Writers}
    \cup UNION {loads[r].fd : r \in Readers}

Used == UsedIn(dir, writers, readers)

\* A file neither named nor held open is gone.
Unlinked(entries, saves, loads) ==
  [i \in Inodes |-> IF i \in UsedIn(entries, saves, loads) THEN inodes[i] ELSE emptyFile]

\* The file a creation takes.
FreeInode == CHOOSE i \in Inodes \ Used : \A j \in Inodes \ Used : i <= j

InitFiles ==
  /\ dir = [n \in Names |-> IF n = docPath THEN Some(1) ELSE undefined]
  /\ inodes = [i \in Inodes |-> IF i = 1 THEN Complete(previousDocument) ELSE emptyFile]
  /\ writers = [w \in Writers |-> idleWriter]
  /\ readers = [r \in Readers |-> idleReader]
  /\ overlapped = FALSE
  /\ IdleScore
  /\ IdleMerge
  /\ IdleTaste
  /\ IdleCalls
  /\ IdleUpdate
  /\ IdleRecommend
  /\ IdleSharing

othersFiles == <<varsScore, varsMerge, varsTaste, varsCalls, varsUpdate, varsRecommend, varsSharing>>

\* writeFile(tmp, ...) opens `tmp` for writing: the file is created when
\* there is none and truncated when there is one.
SaveOpen(w) ==
  /\ writers[w].pc = "idle"
  /\ LET target == IF dir[tmpPath] = undefined THEN FreeInode ELSE Val(dir[tmpPath])
     IN /\ dir' = [dir EXCEPT ![tmpPath] = Some(target)]
        /\ inodes' = [inodes EXCEPT ![target] = emptyFile]
        /\ writers' = [writers EXCEPT ![w] = [pc |-> "writing", fd |-> Some(target), offset |-> 0]]
  /\ overlapped' = (overlapped \/ \E other \in Writers \ {w} : writers[other].pc # "idle")
  /\ UNCHANGED readers
  /\ UNCHANGED othersFiles

\* writeFile writes the next part of the text at its position in the file
\* it opened, and closes the file after the last part.
SaveWrite(w) ==
  /\ writers[w].pc = "writing"
  /\ LET position == writers[w].offset + 1
         file == Val(writers[w].fd)
     IN /\ inodes' = [inodes EXCEPT ![file][position] = DocumentOf(w)]
        /\ writers' = [writers EXCEPT ![w] =
                         IF position = MaxChunks
                         THEN [pc |-> "renaming", fd |-> undefined, offset |-> 0]
                         ELSE [@ EXCEPT !.offset = position]]
  /\ UNCHANGED <<dir, readers, overlapped>>
  /\ UNCHANGED othersFiles

\* rename(tmp, path): the document's entry names the file `tmp` named; the
\* call rejects (ENOENT) when `tmp` is gone.
SaveRename(w) ==
  /\ writers[w].pc = "renaming"
  /\ dir' = IF dir[tmpPath] = undefined
            THEN dir
            ELSE [dir EXCEPT ![docPath] = dir[tmpPath], ![tmpPath] = undefined]
  /\ writers' = [writers EXCEPT ![w] = idleWriter]
  /\ inodes' = Unlinked(dir', writers', readers)
  /\ UNCHANGED <<readers, overlapped>>
  /\ UNCHANGED othersFiles

\* readFile(path) opens the document.
LoadOpen(r) ==
  /\ readers[r].pc = "idle"
  /\ readers' = [readers EXCEPT ![r] = [pc |-> "reading", fd |-> dir[docPath], observed |-> undefined]]
  /\ UNCHANGED <<dir, inodes, writers, overlapped>>
  /\ UNCHANGED othersFiles

\* readFile reads the file it opened and closes it.
LoadRead(r) ==
  /\ readers[r].pc = "reading"
  /\ readers' = [readers EXCEPT ![r] = [pc |-> "idle", fd |-> undefined,
                                         observed |-> Some(inodes[Val(readers[r].fd)])]]
  /\ inodes' = Unlinked(dir, writers, readers')
  /\ UNCHANGED <<dir, writers, overlapped>>
  /\ UNCHANGED othersFiles

NextFiles ==
  \/ \E w \in Writers : SaveOpen(w)
  \/ \E w \in Writers : SaveWrite(w)
  \/ \E w \in Writers : SaveRename(w)
  \/ \E r \in Readers : LoadOpen(r)
  \/ \E r \in Readers : LoadRead(r)

SpecFiles == InitFiles /\ [][NextFiles]_vars

\* The text of the document at its path.
DocumentText == inodes[Val(dir[docPath])]

\* C23 as stated: under every interleaving of the save calls with each
\* other and with readers, a reader of the document path observes a
\* complete document, never a partially written one.
C23_ReaderSeesComplete ==
  \A r \in Readers :
    readers[r].observed # undefined => Val(readers[r].observed) \in CompleteDocuments

\* While no save call has started during another save call of the same
\* document, the document at its path is complete and every reader has
\* observed a complete document.
C23_AtomicWithoutOverlap ==
  ~overlapped =>
    /\ dir[docPath] # undefined
    /\ DocumentText \in CompleteDocuments
    /\ C23_ReaderSeesComplete

\* A reader has observed a new document, saved without any overlap.
C23_Witness ==
  /\ ~overlapped
  /\ \E r \in Readers :
       /\ readers[r].observed # undefined
       /\ Val(readers[r].observed) \in CompleteDocuments \ {Complete(previousDocument)}

\* A reader has observed a document of which nothing was written: the
\* other save call truncated `tmp` before the rename.
C23_TruncatedWitness ==
  \E r \in Readers : readers[r].observed = Some(emptyFile)

====
